---------------------------- MODULE Spec2Model ----------------------------
(***************************************************************************)
(* A model of the BitDrift torrent core: the peer wire codecs              *)
(* (message.rs), the peer session state machines (peer.rs, session.rs)     *)
(* and the piece assembler (piece.rs).                                     *)
(*                                                                         *)
(* Conventions.  Option<T> is a sequence of length 0 (None) or 1 (Some).   *)
(* Vec<u8>, BytesMut and [u8; N] are sequences of numbers in 0..255.       *)
(* A u32 read off the wire is kept below 2^31 by the byte alphabets the    *)
(* specifications draw from, so that it fits the checker's integers; usize *)
(* is the 64-bit usize of the desktop targets, so `4 + length` and the     *)
(* u32 -> usize casts never wrap.  A Rust panic is an outcome of its own   *)
(* ("Panic"): the call returns nothing.                                    *)
(***************************************************************************)
EXTENDS Integers, Sequences, FiniteSets, TLC

VARIABLES
    \* -- MessageCodec over one direction of a connection (message.rs)
    wire,       \* bytes the sender's encoder wrote, not yet read
    src,        \* the decoder's BytesMut read buffer
    item,       \* Option: the message whose encoding is the whole stream
    out,        \* the last MessageCodec::decode call: before, res, after
    \* -- ConnectedSession::handshake (peer.rs) over HandShakeCodec
    hs,         \* the handshake exchange, a record (see HsInit)
    \* -- Piece (piece.rs)
    piece,      \* the Piece: index, hash, length, status
    pres,       \* the last Piece call and what it returned
    overflow_checks, \* the build: TRUE debug (overflow panics), FALSE release
    \* -- ActiveSession (peer.rs)
    active,     \* the ActiveSession's fields and the state of run()
    \* -- Session (session.rs) with its Torrent aggregate (torrent.rs)
    sess,       \* Session: peer_connection, request_queue, torrent
    \* -- PiecePicker (piece_picker.rs)
    piece_picker, \* the PiecePicker: own_bitfield, missing_blocks, lengths
    pickres,    \* the last PiecePicker call, what it returned, blocks picked
    \* -- Choker (choker.rs)
    choker,     \* the Choker: upload_slot
    peers,      \* the Vec<PeerConnection> handed to sort_by_unchoke
    choke,      \* the last sort_by_unchoke call and what it returned
    \* -- ThroughputRate (peer_stats.rs)
    throughput, \* the ThroughputRate: log, window
    clock,      \* Instant::now(), in whole seconds
    rateres,    \* the last ThroughputRate call and every record made so far
    \* -- Disk (disk.rs): the handle, the command queue, the task, the files
    disk,       \* owner, queue, task, fs, reply and the MetaInfo in use
    diskres,    \* the task's last step and the WritePiece commands so far
    \* -- sessions sharing one Torrent (session.rs, torrent.rs)
    mutexes,    \* the torrent mutex and the piece-picker mutex
    aggregate,  \* the Torrent behind the torrent mutex
    tasks       \* per session: where it stands in the Piece arm, its calls

vars == <<wire, src, item, out, hs, piece, pres, overflow_checks, active, sess,
          piece_picker, pickres, choker, peers, choke,
          throughput, clock, rateres,
          disk, diskres,
          mutexes, aggregate, tasks>>

codecVars == <<wire, src, item, out>>

\* what each component's steps leave alone
pickerVars == <<piece_picker, pickres>>

chokerVars == <<choker, peers, choke>>

statsVars == <<throughput, clock, rateres>>

diskVars == <<disk, diskres>>

locksVars == <<mutexes, aggregate, tasks>>

nonCodecVars == <<hs, piece, pres, overflow_checks, active, sess, pickerVars, chokerVars, statsVars, diskVars, locksVars>>

nonHsVars == <<codecVars, piece, pres, overflow_checks, active, sess, pickerVars, chokerVars, statsVars, diskVars, locksVars>>

nonPieceVars == <<codecVars, hs, active, sess, pickerVars, chokerVars, statsVars, diskVars, locksVars>>

nonActiveVars == <<codecVars, hs, piece, pres, overflow_checks, sess, pickerVars, chokerVars, statsVars, diskVars, locksVars>>

nonSessVars == <<codecVars, hs, piece, pres, overflow_checks, active, pickerVars, chokerVars, statsVars, diskVars, locksVars>>

nonPickerVars == <<codecVars, hs, piece, pres, overflow_checks, active, sess, chokerVars, statsVars, diskVars, locksVars>>

nonChokerVars == <<codecVars, hs, piece, pres, overflow_checks, active, sess, pickerVars, statsVars, diskVars, locksVars>>

nonStatsVars == <<codecVars, hs, piece, pres, overflow_checks, active, sess, pickerVars, chokerVars, diskVars, locksVars>>

nonDiskVars == <<codecVars, hs, piece, pres, overflow_checks, active, sess, pickerVars, chokerVars, statsVars, locksVars>>

nonLocksVars == <<codecVars, hs, piece, pres, overflow_checks, active, sess, pickerVars, chokerVars, statsVars, diskVars>>

(***************************************************************************)
(* Option, bytes, integers                                                 *)
(***************************************************************************)
None == <<>>

Some(x) == <<x>>

IsSome(o) == Len(o) = 1

Unwrap(o) == o[1]

\* u32::to_be_bytes
ToBeBytes(n) ==
    << n \div 16777216, (n \div 65536) % 256, (n \div 256) % 256, n % 256 >>

\* Buf::get_u32 on the first four bytes (big-endian), without the advance
BeU32(s) == s[1] * 16777216 + s[2] * 65536 + s[3] * 256 + s[4]

\* Buf::advance(n) / what is left after split_to(n)
Advance(s, n) == SubSeq(s, n + 1, Len(s))

\* the first n bytes, as split_to(n) returns them
Take(s, n) == SubSeq(s, 1, n)

Repeat(b, n) == [i \in 1..n |-> b]

RECURSIVE SumLen(_)
\* blocks.iter().map(|it| it.data.len()).sum()
SumLen(blocks) ==
    IF blocks = <<>> THEN 0
    ELSE Len(blocks[1].data) + SumLen(Tail(blocks))

(***************************************************************************)
(* BitField = BitVec<u8, Msb0>: a sequence of booleans; bit i of the       *)
(* vector is bit (7 - i mod 8) of raw byte (i div 8).                      *)
(***************************************************************************)
Pow2(k) == CASE k = 0 -> 1 [] k = 1 -> 2 [] k = 2 -> 4 [] k = 3 -> 8
             [] k = 4 -> 16 [] k = 5 -> 32 [] k = 6 -> 64 [] k = 7 -> 128

\* BitVec::as_raw_slice: ceil(len / 8) bytes, the unused tail bits zero
AsRawSlice(bits) ==
    LET nbytes == (Len(bits) + 7) \div 8
        Bit(i) == IF i <= Len(bits) /\ bits[i] THEN 1 ELSE 0
        Byte(j) == Bit(8*j + 1) * 128 + Bit(8*j + 2) * 64 + Bit(8*j + 3) * 32
                   + Bit(8*j + 4) * 16 + Bit(8*j + 5) * 8 + Bit(8*j + 6) * 4
                   + Bit(8*j + 7) * 2 + Bit(8*j + 8)
    IN  [j \in 1..nbytes |-> Byte(j - 1)]

\* BitVec::from_vec: every bit of every byte, so 8 * len bits
FromVec(bytes) ==
    [i \in 1..(8 * Len(bytes)) |->
        (bytes[((i - 1) \div 8) + 1] \div Pow2(7 - ((i - 1) % 8))) % 2 = 1]

(***************************************************************************)
(* Message (message.rs)                                                    *)
(***************************************************************************)
MessageIds == 0..8

\* Message::message_id, as the u8 the encoder writes
MessageId(m) ==
    CASE m.tag = "KeepAlive"     -> None
      [] m.tag = "Choke"         -> Some(0)
      [] m.tag = "Unchoke"       -> Some(1)
      [] m.tag = "Interested"    -> Some(2)
      [] m.tag = "NotInterested" -> Some(3)
      [] m.tag = "Have"          -> Some(4)
      [] m.tag = "Bitfield"      -> Some(5)
      [] m.tag = "Request"       -> Some(6)
      [] m.tag = "Piece"         -> Some(7)
      [] m.tag = "Cancel"        -> Some(8)

\* Message::message_length; bitfield.len() is the BitVec's length in bits
MessageLength(m) ==
    CASE m.tag = "KeepAlive" -> 0
      [] m.tag \in {"Choke", "Unchoke", "Interested", "NotInterested"} -> 1
      [] m.tag = "Have"      -> 5
      [] m.tag = "Bitfield"  -> 1 + Len(m.bitfield)
      [] m.tag = "Request"   -> 13
      [] m.tag = "Piece"     -> 9 + Len(m.piece)
      [] m.tag = "Cancel"    -> 13

\* Message::payload
Payload(m) ==
    CASE m.tag \in {"KeepAlive", "Choke", "Unchoke", "Interested",
                    "NotInterested"} -> None
      [] m.tag = "Have"     -> Some(ToBeBytes(m.piece_index))
      [] m.tag = "Bitfield" -> Some(AsRawSlice(m.bitfield))
      [] m.tag \in {"Request", "Cancel"} ->
            Some(ToBeBytes(m.piece_index) \o ToBeBytes(m.begin)
                 \o ToBeBytes(m.length))
      [] m.tag = "Piece"    ->
            Some(ToBeBytes(m.piece_index) \o ToBeBytes(m.begin) \o m.piece)

\* <MessageCodec as Encoder>::encode: dst with the frame appended
MessageEncode(m, dst) ==
    dst \o ToBeBytes(MessageLength(m))
        \o (IF IsSome(MessageId(m)) THEN <<Unwrap(MessageId(m))>> ELSE <<>>)
        \o (IF IsSome(Payload(m)) THEN Unwrap(Payload(m)) ELSE <<>>)

\* what decode hands back: Ok(None), Ok(Some(m)), Err(..) or a panic, with
\* the buffer as the call left it
DecNone(s) == [res |-> "None", msg |-> None, src |-> s]

DecSome(m, s) == [res |-> "Some", msg |-> Some(m), src |-> s]

DecErr(s) == [res |-> "Err", msg |-> None, src |-> s]

DecPanic(s) == [res |-> "Panic", msg |-> None, src |-> s]

\* the three u32 fields of Request and Cancel (get_u32 panics when fewer
\* than four bytes remain)
DecodeTriple(tag, s) ==
    IF Len(s) < 4 THEN DecPanic(s)
    ELSE IF Len(s) < 8 THEN DecPanic(Advance(s, 4))
    ELSE IF Len(s) < 12 THEN DecPanic(Advance(s, 8))
    ELSE DecSome([tag |-> tag, piece_index |-> BeU32(s),
                  begin |-> BeU32(Advance(s, 4)),
                  length |-> BeU32(Advance(s, 8))], Advance(s, 12))

\* the match on the message id, s being the buffer after the id byte
DecodeBody(id, length, s) ==
    CASE id = 0 -> DecSome([tag |-> "Choke"], s)
      [] id = 1 -> DecSome([tag |-> "Unchoke"], s)
      [] id = 2 -> DecSome([tag |-> "Interested"], s)
      [] id = 3 -> DecSome([tag |-> "NotInterested"], s)
      [] id = 4 ->
            IF Len(s) < 4 THEN DecPanic(s)
            ELSE DecSome([tag |-> "Have", piece_index |-> BeU32(s)],
                         Advance(s, 4))
      [] id = 5 ->
            \* split_to panics when asked for more than the buffer holds
            IF Len(s) < length - 1 THEN DecPanic(s)
            ELSE
            DecSome([tag |-> "Bitfield",
                     bitfield |-> FromVec(Take(s, length - 1))],
                    Advance(s, length - 1))
      [] id = 6 -> DecodeTriple("Request", s)
      [] id = 7 ->
            IF Len(s) < 4 THEN DecPanic(s)
            ELSE IF Len(s) < 8 THEN DecPanic(Advance(s, 4))
            \* length - 9 underflows: a panic in a debug build, and in a
            \* release build a split_to far past the end, a panic as well
            ELSE IF length < 9 \/ Len(s) < length - 1 THEN DecPanic(Advance(s, 8))
            ELSE DecSome([tag |-> "Piece", piece_index |-> BeU32(s),
                          begin |-> BeU32(Advance(s, 4)),
                          piece |-> SubSeq(s, 9, length - 1)],
                         Advance(s, length - 1))
      [] id = 8 -> DecodeTriple("Cancel", s)
      [] OTHER  -> DecErr(s)

\* a plausible slip: the length prefix itself left out of the size check
MessageDecodeNoPrefix(s) ==
    IF Len(s) < 4 THEN DecNone(s)
    ELSE LET length == BeU32(s) IN
         IF Len(s) < length THEN DecNone(s)
         ELSE IF length = 0 THEN DecSome([tag |-> "KeepAlive"], Advance(s, 4))
         ELSE IF Len(s) < 5 THEN DecPanic(Advance(s, 4))
         ELSE DecodeBody(s[5], length, Advance(s, 5))

\* <MessageCodec as Decoder>::decode
MessageDecode(s) ==
    IF Len(s) < 4 THEN DecNone(s)
    ELSE LET length == BeU32(s) IN
         IF Len(s) < 4 + length THEN DecNone(s)
         ELSE IF length = 0 THEN DecSome([tag |-> "KeepAlive"], Advance(s, 4))
         ELSE DecodeBody(s[5], length, Advance(s, 5))


(***************************************************************************)
(* HandShake and HandShakeCodec (message.rs)                               *)
(***************************************************************************)
\* b"BitTorrent protocol"
PROTOCOL_STRING ==
    <<66, 105, 116, 84, 111, 114, 114, 101, 110, 116, 32,
      112, 114, 111, 116, 111, 99, 111, 108>>

HandShakeLen == 68

ProtocolLen == 19

ReservedLen == 8

HashLen == 20

\* HandShake::new
HandShake(info_hash, peer_id) == [info_hash |-> info_hash, peer_id |-> peer_id]

\* <HandShakeCodec as Encoder>::encode
HandShakeEncode(h, dst) ==
    dst \o <<ProtocolLen>> \o PROTOCOL_STRING \o Repeat(0, ReservedLen)
        \o h.info_hash \o h.peer_id

\* slice::starts_with
StartsWith(s, prefix) ==
    Len(s) >= Len(prefix) /\ Take(s, Len(prefix)) = prefix

\* <HandShakeCodec as Decoder>::decode.  get_u8 advances past pstrlen;
\* starts_with only looks at the protocol string and advances nothing, so
\* the advance(8) and the two copy_to_slice calls read from the first byte
\* of the protocol string on.
HandShakeDecode(s) ==
    IF Len(s) < HandShakeLen THEN DecNone(s)
    ELSE LET protocol_length == s[1]
             s1 == Advance(s, 1)
         IN  IF protocol_length # ProtocolLen \/ ~StartsWith(s1, PROTOCOL_STRING)
             THEN DecErr(s1)
             ELSE LET s2 == Advance(s1, ReservedLen)
                      info_hash == Take(s2, HashLen)
                      s3 == Advance(s2, HashLen)
                      peer_id == Take(s3, HashLen)
                  IN  DecSome(HandShake(info_hash, peer_id),
                              Advance(s3, HashLen))


(***************************************************************************)
(* Bounds and the inputs the specifications draw from                      *)
(***************************************************************************)
\* bytes a remote peer may put in the read buffer one by one
MaxSrc == 5

\* the longest bitfield, in bits, among the messages sent
MaxBits == 9

\* the longest Piece payload among the messages sent
MaxData == 2

\* byte values of the raw inbound stream: lengths 0, 1, 4, 9 and the ids
\* Choke, Unchoke, Have and the unknown id 9
RecvBytes == {0, 1, 4, 9}

U32Vals == {0, 1, 16384}

DataVals == {SubSeq(<<170, 187, 170, 187>>, 1, n) : n \in 0..MaxData}

\* bitfields of every length up to MaxBits: all set, every other bit set
BitFields ==
    {[i \in 1..n |-> (i % k = 0)] : n \in 0..MaxBits, k \in 1..2}

Messages ==
    {[tag |-> t] : t \in {"KeepAlive", "Choke", "Unchoke", "Interested",
                          "NotInterested"}}
    \cup {[tag |-> "Have", piece_index |-> i] : i \in U32Vals}
    \cup {[tag |-> "Bitfield", bitfield |-> b] : b \in BitFields}
    \cup {[tag |-> t, piece_index |-> i, begin |-> b, length |-> l] :
            t \in {"Request", "Cancel"}, i \in {0, 1}, b \in {0, 16384},
            l \in {1, 16384}}
    \cup {[tag |-> "Piece", piece_index |-> i, begin |-> b, piece |-> d] :
            i \in {0, 1}, b \in {0, 16384}, d \in DataVals}

(***************************************************************************)
(* The message codec on a stream: the sender encodes a message, the        *)
(* transport delivers its bytes in chunks, a remote peer may also write    *)
(* raw bytes, and the receiver calls decode on its read buffer.            *)
(***************************************************************************)
NoCall == [before |-> <<>>, res |-> "NoCall", msg |-> None, after |-> <<>>]

CodecIdle ==
    /\ wire = <<>>
    /\ src = <<>>
    /\ item = None
    /\ out = NoCall

\* Framed::send on an idle stream: encode(m, dst) with an empty dst
CodecSend(m) ==
    /\ wire = <<>> /\ src = <<>>
    /\ out.res \in {"NoCall", "None", "Some"}
    /\ wire' = MessageEncode(m, <<>>)
    /\ item' = Some(m)
    /\ UNCHANGED <<src, out>>
    /\ UNCHANGED nonCodecVars

\* the transport moves the next n bytes into the read buffer
CodecDeliver(n) ==
    /\ n \in 1..Len(wire)
    /\ out.res \in {"NoCall", "None", "Some"}
    /\ src' = src \o Take(wire, n)
    /\ wire' = Advance(wire, n)
    /\ UNCHANGED <<item, out>>
    /\ UNCHANGED nonCodecVars

\* a remote peer writes one raw byte
CodecRecv(b) ==
    /\ wire = <<>>
    /\ Len(src) < MaxSrc
    /\ out.res \in {"NoCall", "None", "Some"}
    /\ src' = Append(src, b)
    /\ item' = None
    /\ UNCHANGED <<wire, out>>
    /\ UNCHANGED nonCodecVars

\* one MessageCodec::decode(&mut src) call
CodecDecode ==
    /\ out.res \in {"NoCall", "None", "Some"}
    /\ LET r == MessageDecode(src) IN
        /\ out' = [before |-> src, res |-> r.res, msg |-> r.msg, after |-> r.src]
        /\ src' = r.src
    /\ UNCHANGED <<wire, item>>
    /\ UNCHANGED nonCodecVars

\* the connection is dropped and a new one starts
CodecReset ==
    /\ out.res # "NoCall"
    /\ wire' = <<>>
    /\ src' = <<>>
    /\ item' = None
    /\ out' = NoCall
    /\ UNCHANGED nonCodecVars


(***************************************************************************)
(* ConnectedSession::handshake (peer.rs) over a Framed<_, HandShakeCodec>  *)
(***************************************************************************)
\* a 20-byte value that the decoder's misplaced window produces from a
\* frame whose info_hash starts with b: "nt protocol", the reserved bytes, b
WindowHash(b) == SubSeq(PROTOCOL_STRING, 9, ProtocolLen) \o Repeat(0, ReservedLen) \o <<b>>

Hashes == {Repeat(1, HashLen), Repeat(2, HashLen), WindowHash(1)}

PeerIds == {Repeat(7, HashLen), Repeat(8, HashLen)}

LocalPeerId == Repeat(9, HashLen)

\* 68-byte replies that are not handshakes: pstrlen 18, a wrong protocol string
BadReplies ==
    {<<18>> \o Advance(HandShakeEncode(HandShake(Repeat(1, HashLen), Repeat(7, HashLen)), <<>>), 1),
     <<ProtocolLen>> \o Repeat(66, ProtocolLen)
        \o Advance(HandShakeEncode(HandShake(Repeat(1, HashLen), Repeat(7, HashLen)), <<>>), 20)}

\* ConnectedSession::new around a fresh socket, with the arguments the
\* caller will pass to handshake()
HsStart(info_hash) ==
    [pc |-> "Connected", info_hash |-> info_hash, peer_id |-> LocalPeerId,
     sent |-> <<>>, reply |-> None, replied |-> FALSE,
     wire |-> <<>>, src |-> <<>>, out |-> NoCall, closed |-> FALSE]

HsIdle == hs = HsStart(Repeat(1, HashLen))

\* socket.send(handshake).await? : the frame is written, or the error returned
HsSend(ok) ==
    /\ hs.pc = "Connected"
    /\ hs' = IF ok
             THEN [hs EXCEPT !.pc = "Sent",
                     !.sent = HandShakeEncode(HandShake(hs.info_hash, hs.peer_id), <<>>)]
             ELSE [hs EXCEPT !.pc = "Err"]
    /\ UNCHANGED nonHsVars

\* the remote peer answers with a well-formed handshake
HsReply(info_hash, peer_id) ==
    /\ hs.pc \in {"Connected", "Sent"}
    /\ ~hs.replied
    /\ LET h == HandShake(info_hash, peer_id) IN
        hs' = [hs EXCEPT !.reply = Some(h), !.replied = TRUE,
                         !.wire = HandShakeEncode(h, <<>>)]
    /\ UNCHANGED nonHsVars

\* the remote peer answers with 68 bytes that are no handshake
HsReplyBad(bytes) ==
    /\ hs.pc \in {"Connected", "Sent"}
    /\ ~hs.replied
    /\ hs' = [hs EXCEPT !.replied = TRUE, !.wire = bytes]
    /\ UNCHANGED nonHsVars

\* the rest of handshake() once socket.next() yields Some(Ok(handshake)) or
\* Some(Err(e)); close_ok is whether socket.close().await succeeds
HsOutcome(r, close_ok) ==
    CASE r.res = "Some" ->
            IF Unwrap(r.msg).info_hash # hs.info_hash
            THEN [pc |-> IF close_ok THEN "Disconnected" ELSE "Err", closed |-> close_ok]
            ELSE [pc |-> "Active", closed |-> FALSE]
      [] r.res = "Err" -> [pc |-> "Err", closed |-> close_ok]
      [] OTHER -> [pc |-> hs.pc, closed |-> FALSE]

\* socket.next().await: Framed reads n more bytes and calls decode
HsRead(n, close_ok) ==
    /\ hs.pc = "Sent"
    /\ n \in 1..Len(hs.wire)
    /\ LET before == hs.src \o Take(hs.wire, n)
           r == HandShakeDecode(before)
           o == HsOutcome(r, close_ok)
       IN  hs' = [hs EXCEPT !.wire = Advance(hs.wire, n),
                            !.src = r.src,
                            !.out = [before |-> before, res |-> r.res,
                                     msg |-> r.msg, after |-> r.src],
                            !.pc = o.pc,
                            !.closed = o.closed]
    /\ UNCHANGED nonHsVars

\* the remote peer closes: Framed's decode_eof yields an error when bytes
\* remain in the buffer and ends the stream (None) when it is empty
HsEof(close_ok) ==
    /\ hs.pc = "Sent"
    /\ hs.wire = <<>>
    /\ hs' = IF hs.src # <<>>
             THEN [hs EXCEPT !.pc = "Err", !.closed = close_ok]
             ELSE [hs EXCEPT !.pc = IF close_ok THEN "Disconnected" ELSE "Err",
                             !.closed = close_ok]
    /\ UNCHANGED nonHsVars


(***************************************************************************)
(* Piece (piece.rs)                                                        *)
(***************************************************************************)
MaxPieceLen == 3

MaxBlocks == 2

MaxBegin == 2

\* hash.rs: SHA-1, taken to be collision-free: the digest determines the data
calculate_sha1_hash(data) == <<"sha1", data>>

UnVerified(blocks) == [tag |-> "UnVerified", blocks |-> blocks]

Verified(data) == [tag |-> "Verified", data |-> data]

\* Piece::new_unverified
new_unverified(index, hash, length) ==
    [index |-> index, hash |-> hash, length |-> length, status |-> UnVerified(<<>>)]

\* Piece::new_verified
new_verified(index, hash, length, data) ==
    [index |-> index, hash |-> hash, length |-> length, status |-> Verified(data)]

Block(piece_index, begin, data) ==
    [piece_index |-> piece_index, begin |-> begin, data |-> data]

\* what a Piece call returns: Ok(val), Err(err), or a panic
Ok(val) == [res |-> "Ok", val |-> val, err |-> "none"]

Err(e) == [res |-> "Err", val |-> "none", err |-> e]

Panic == [res |-> "Panic", val |-> "none", err |-> "none"]

\* Piece::is_all_blocks_received.  `self.length as usize - received` is an
\* unchecked subtraction: with overflow checks it panics when more bytes
\* were received than the piece holds; without them it wraps to a value
\* near 2^64, which no block length exceeds.
is_all_blocks_received(p, checks) ==
    IF p.status.tag = "Verified" THEN Ok(TRUE)
    ELSE LET blocks == p.status.blocks
             received_pieces_length == SumLen(blocks)
         IN  IF received_pieces_length > p.length
             THEN (IF checks THEN Panic ELSE Ok(FALSE))
             ELSE LET diff == p.length - received_pieces_length
                  IN  IF blocks # <<>>
                      THEN Ok(diff < Len(blocks[1].data))
                      ELSE Ok(FALSE)

\* add_block without the match on the status: the block is stored whatever
\* the piece is, and a Verified piece goes back to UnVerified
add_block_unguarded(p, block) ==
    [piece |-> [p EXCEPT !.status =
                    UnVerified(IF p.status.tag = "UnVerified"
                               THEN Append(p.status.blocks, block)
                               ELSE <<block>>)],
     ret |-> Ok("unit")]

\* Piece::add_block: the piece after the call, and what the call returns
add_block(p, block) ==
    IF p.status.tag = "Verified"
    THEN [piece |-> p, ret |-> Err("InvalidBlock")]
    ELSE [piece |-> [p EXCEPT !.status = UnVerified(Append(p.status.blocks, block))],
          ret |-> Ok("unit")]

RECURSIVE CopyBlocks(_, _)
\* the loop of verify(): data[begin..begin + len].copy_from_slice(..) for
\* each block in turn; None when a slice index is out of range (a panic)
CopyBlocks(data, blocks) ==
    IF blocks = <<>> THEN Some(data)
    ELSE LET begin == blocks[1].begin
             end == begin + Len(blocks[1].data)
         IN  IF end > Len(data) THEN None
             ELSE CopyBlocks(
                    [i \in 1..Len(data) |->
                        IF begin < i /\ i <= end THEN blocks[1].data[i - begin]
                        ELSE data[i]],
                    Tail(blocks))

\* Piece::verify.  BytesMut::with_capacity(n) is an empty buffer (length 0)
\* with room for n bytes, and the loop indexes into it as it stands.
verify(p, checks) ==
    IF p.status.tag = "Verified" THEN [piece |-> p, ret |-> Ok("unit")]
    ELSE LET all == is_all_blocks_received(p, checks) IN
         IF all.res = "Panic" THEN [piece |-> p, ret |-> Panic]
         ELSE IF ~all.val THEN [piece |-> p, ret |-> Err("IncompleteBlocks")]
         ELSE LET data == CopyBlocks(<<>>, p.status.blocks) IN
              IF data = None THEN [piece |-> p, ret |-> Panic]
              ELSE IF p.hash = calculate_sha1_hash(Unwrap(data))
                   THEN [piece |-> [p EXCEPT !.status = Verified(Unwrap(data))],
                         ret |-> Ok(Unwrap(data))]
                   ELSE [piece |-> p, ret |-> Err("InvalidHash")]

\* Piece::request
request(p, begin, length) ==
    IF p.status.tag = "Verified"
    THEN (IF begin + length > Len(p.status.data) THEN Panic
          ELSE Ok(SubSeq(p.status.data, begin + 1, begin + length)))
    ELSE Panic

\* block payloads and the contents a piece is expected to hold
PieceDatas == {<<>>, <<170>>, <<187>>, <<170, 187>>}

Contents == {SubSeq(<<170, 187, 170, 187>>, 1, n) : n \in 0..MaxPieceLen}
            \cup {Repeat(187, n) : n \in 1..MaxPieceLen}

NoPieceCall == [op |-> "new", before |-> UnVerified(<<>>), ret |-> Ok("unit")]

PieceIdle ==
    /\ piece = new_unverified(0, calculate_sha1_hash(<<>>), 0)
    /\ pres = NoPieceCall
    /\ overflow_checks = FALSE

\* a task that panicked inside a Piece call makes no further call
PieceLive == pres.ret.res # "Panic"

PieceAddBlock(begin, data) ==
    /\ PieceLive
    /\ piece.status.tag = "UnVerified" => Len(piece.status.blocks) < MaxBlocks
    /\ LET r == add_block(piece, Block(piece.index, begin, data)) IN
        /\ piece' = r.piece
        /\ pres' = [op |-> "add_block", before |-> piece.status, ret |-> r.ret]
    /\ UNCHANGED overflow_checks
    /\ UNCHANGED nonPieceVars

PieceIsAllBlocksReceived ==
    /\ PieceLive
    /\ pres' = [op |-> "is_all_blocks_received", before |-> piece.status,
                ret |-> is_all_blocks_received(piece, overflow_checks)]
    /\ UNCHANGED <<piece, overflow_checks>>
    /\ UNCHANGED nonPieceVars

PieceVerify ==
    /\ PieceLive
    /\ LET r == verify(piece, overflow_checks) IN
        /\ piece' = r.piece
        /\ pres' = [op |-> "verify", before |-> piece.status, ret |-> r.ret]
    /\ UNCHANGED overflow_checks
    /\ UNCHANGED nonPieceVars

PieceRequest(begin, length) ==
    /\ PieceLive
    /\ pres' = [op |-> "request", before |-> piece.status,
                ret |-> request(piece, begin, length)]
    /\ UNCHANGED <<piece, overflow_checks>>
    /\ UNCHANGED nonPieceVars


(***************************************************************************)
(* PeerStats / ThroughputRate (peer_stats.rs); Instant::now() is `now`,    *)
(* in whole seconds                                                        *)
(***************************************************************************)
ThroughputRateNew(window_secs) == [log |-> <<>>, window |-> window_secs]

RECURSIVE cleanup_log(_, _)
\* ThroughputRate::cleanup_log: pop the front while it is older than the window
cleanup_log(rate, now) ==
    IF rate.log # <<>> /\ now - rate.log[1][1] > rate.window
    THEN cleanup_log([rate EXCEPT !.log = Tail(@)], now)
    ELSE rate

\* ThroughputRate::record
record(rate, now, bytes) ==
    cleanup_log([rate EXCEPT !.log = Append(@, <<now, bytes>>)], now)

\* PeerStats::new
PeerStatsNew(window_secs) ==
    [upload |-> ThroughputRateNew(window_secs),
     download |-> ThroughputRateNew(window_secs),
     window |-> window_secs]

\* PeerStats::record_download
record_download(stats, now, bytes) ==
    [stats EXCEPT !.download = record(@, now, bytes)]

(***************************************************************************)
(* ActiveSession (peer.rs): on_message, on_tick and the select loop of run *)
(***************************************************************************)
\* messages handled by one session
MaxInbound == 3

\* seconds the ticker may count
MaxNow == 2

BLOCK_SIZE == 16384

StatsWindowSecs == 20

SessionBitFields ==
    {<<TRUE, FALSE, TRUE, FALSE, FALSE, FALSE, FALSE, FALSE>>,
     <<FALSE, TRUE, TRUE, FALSE, FALSE, FALSE, FALSE, FALSE>>}

\* what a remote peer may send once the connection is active
SessionMessages ==
    {[tag |-> t] : t \in {"KeepAlive", "Choke", "Unchoke", "Interested",
                          "NotInterested"}}
    \cup {[tag |-> "Have", piece_index |-> i] : i \in {0, 1}}
    \cup {[tag |-> "Bitfield", bitfield |-> b] : b \in SessionBitFields}
    \cup {[tag |-> t, piece_index |-> 0, begin |-> b, length |-> BLOCK_SIZE] :
            t \in {"Request", "Cancel"}, b \in {0, BLOCK_SIZE}}
    \cup {[tag |-> "Piece", piece_index |-> i, begin |-> 0, piece |-> d] :
            i \in {0, 1}, d \in {<<170>>, Repeat(170, BLOCK_SIZE)}}

\* ActiveSession::new, with the history of the message tags handled so far,
\* the bitfield field as it was before the last message, the
\* (piece_index, begin, length) of every Piece message handled (blocks_in)
\* and of every block handed to Torrent::add_block (forwarded)
ActiveSessionNew ==
    [pc |-> "Running",
     is_bitfield_exchanged |-> FALSE,
     ctx |-> [is_choked |-> TRUE, is_interested |-> FALSE,
              is_peer_choked |-> TRUE, is_peer_interested |-> FALSE],
     bitfield |-> None,
     stats |-> PeerStatsNew(StatsWindowSecs),
     now |-> 0,
     inbound_open |-> TRUE,
     inbound |-> <<>>,
     bitfield_before |-> None,
     blocks_in |-> <<>>,
     forwarded |-> <<>>]

ActiveIdle == active = ActiveSessionNew

\* ActiveSession::on_message: the fields after the call (it returns Ok(())
\* in every arm); ActiveSession holds no Torrent and no arm calls add_block
on_message(s, message) ==
    CASE message.tag = "KeepAlive" -> s
      [] message.tag = "Choke" -> [s EXCEPT !.ctx.is_peer_choked = TRUE]
      [] message.tag = "Unchoke" -> [s EXCEPT !.ctx.is_peer_choked = FALSE]
      [] message.tag = "Interested" -> [s EXCEPT !.ctx.is_peer_interested = TRUE]
      [] message.tag = "NotInterested" -> [s EXCEPT !.ctx.is_peer_interested = FALSE]
      [] message.tag = "Have" -> s
      [] message.tag = "Bitfield" ->
            IF ~s.is_bitfield_exchanged
            THEN [s EXCEPT !.is_bitfield_exchanged = TRUE,
                           !.bitfield = Some(message.bitfield)]
            ELSE s
      [] message.tag = "Request" -> s
      [] message.tag = "Piece" ->
            [s EXCEPT !.stats = record_download(@, s.now, Len(message.piece))]
      [] message.tag = "Cancel" -> s

\* run(): the ticker branch of select!; on_tick does nothing and returns Ok
ActiveTick ==
    /\ active.pc = "Running"
    /\ active.now < MaxNow
    /\ active' = [active EXCEPT !.now = @ + 1]
    /\ UNCHANGED nonActiveVars

\* run(): socket.next() yields Some(Ok(message)), handled by on_message
ActiveRecv(message) ==
    /\ active.pc = "Running"
    /\ active.inbound_open
    /\ Len(active.inbound) < MaxInbound
    /\ active' = [on_message(active, message) EXCEPT
                    !.inbound = Append(@, message.tag),
                    !.bitfield_before = active.bitfield,
                    !.blocks_in = IF message.tag = "Piece"
                                  THEN Append(@, [piece_index |-> message.piece_index,
                                                  begin |-> message.begin,
                                                  length |-> Len(message.piece)])
                                  ELSE @]
    /\ UNCHANGED nonActiveVars

\* run(): socket.next() yields Some(Err(e)): run returns Err(PeerError::Io)
ActiveRecvErr ==
    /\ active.pc = "Running"
    /\ active.inbound_open
    /\ active' = [active EXCEPT !.pc = "Err"]
    /\ UNCHANGED nonActiveVars

\* run(): socket.next() yields None (the peer closed): the pattern
\* Some(message) does not match, the branch is disabled and the loop goes on
ActiveEof ==
    /\ active.pc = "Running"
    /\ active.inbound_open
    /\ active' = [active EXCEPT !.inbound_open = FALSE]
    /\ UNCHANGED nonActiveVars


(***************************************************************************)
(* PiecePicker (piece_picker.rs)                                           *)
(***************************************************************************)
\* BlockInfo::new
BlockInfo(piece_index, begin, length) ==
    [piece_index |-> piece_index, begin |-> begin, length |-> length,
     state |-> "NotRequested"]

\* a comparison that looks at the piece index alone
is_same_piece(a, b) == a.piece_index = b.piece_index

\* BlockInfo::is_same_block
is_same_block(a, b) ==
    a.piece_index = b.piece_index /\ a.begin = b.begin /\ a.length = b.length

\* PiecePicker::block_size
block_size(own_bitfield, piece_length, total_length, piece_index, block_index) ==
    LET is_last_piece == Len(own_bitfield) = piece_index + 1
        is_last_block == block_index * BLOCK_SIZE + BLOCK_SIZE >= piece_length
    IN  IF is_last_piece /\ is_last_block
        THEN total_length % BLOCK_SIZE
        ELSE BLOCK_SIZE

RECURSIVE MissingBlocksFrom(_, _, _, _)
\* the loops of PiecePicker::new from piece_index on: piece_length / BLOCK_SIZE
\* blocks for every piece whose bit is not set
MissingBlocksFrom(own_bitfield, total_length, piece_length, piece_index) ==
    IF piece_index >= Len(own_bitfield) THEN <<>>
    ELSE LET num_of_blocks == piece_length \div BLOCK_SIZE
             blocks == IF own_bitfield[piece_index + 1] THEN <<>>
                       ELSE [k \in 1..num_of_blocks |->
                               BlockInfo(piece_index, (k - 1) * BLOCK_SIZE,
                                         block_size(own_bitfield, piece_length,
                                                    total_length, piece_index, k - 1))]
         IN  blocks \o MissingBlocksFrom(own_bitfield, total_length, piece_length,
                                         piece_index + 1)

\* PiecePicker::new
PiecePickerNew(own_bitfield, total_length, piece_length) ==
    [own_bitfield |-> own_bitfield,
     missing_blocks |-> MissingBlocksFrom(own_bitfield, total_length, piece_length, 0),
     total_length |-> total_length,
     piece_length |-> piece_length]

RECURSIVE PickFrom(_, _)
\* missing_blocks.iter().find(..): the closure indexes peer_bitfield first
\* (a panic past its end), then tests the state
PickFrom(blocks, peer_bitfield) ==
    IF blocks = <<>> THEN Ok(None)
    ELSE IF blocks[1].piece_index >= Len(peer_bitfield) THEN Panic
    ELSE IF peer_bitfield[blocks[1].piece_index + 1]
            /\ blocks[1].state = "NotRequested"
         THEN Ok(Some(blocks[1]))
         ELSE PickFrom(Tail(blocks), peer_bitfield)

\* PiecePicker::pick_block: what the call returns; it changes nothing
pick_block(picker, peer_bitfield) == PickFrom(picker.missing_blocks, peer_bitfield)

\* PiecePicker::mark_received: the picker after the call and what the call
\* returns; BitVec::set panics on an index past the end, the block already
\* marked
mark_received(picker, piece_index, block) ==
    LET found == {k \in 1..Len(picker.missing_blocks) :
                    is_same_block(picker.missing_blocks[k], block)}
    IN  IF found = {} THEN [picker |-> picker, ret |-> Ok("unit")]
        ELSE LET k == CHOOSE x \in found : \A y \in found : x <= y
                 marked == [picker.missing_blocks EXCEPT ![k].state = "Received"]
                 is_all_received ==
                    \A j \in 1..Len(marked) :
                        marked[j].piece_index = block.piece_index
                            => marked[j].state = "Received"
             IN  IF is_all_received /\ piece_index >= Len(picker.own_bitfield)
                 THEN [picker |-> [picker EXCEPT !.missing_blocks = marked],
                       ret |-> Panic]
                 ELSE [picker |-> [picker EXCEPT
                                    !.missing_blocks = marked,
                                    !.own_bitfield =
                                        IF is_all_received
                                        THEN [@ EXCEPT ![piece_index + 1] = TRUE]
                                        ELSE @],
                       ret |-> Ok("unit")]

(***************************************************************************)
(* Torrent (torrent.rs); a MetaInfo is its piece_length and total_bytes()  *)
(***************************************************************************)
MetaInfos ==
    {[piece_length |-> BLOCK_SIZE, total_bytes |-> 2 * BLOCK_SIZE],
     [piece_length |-> 2 * BLOCK_SIZE, total_bytes |-> 3 * BLOCK_SIZE + 1]}

\* Torrent::from_metainfo
from_metainfo(metainfo) ==
    LET piece_length == metainfo.piece_length
        total_bytes == metainfo.total_bytes
        piece_size == total_bytes \div piece_length
    IN  [pieces |-> <<>>,
         piece_picker |-> PiecePickerNew(Repeat(FALSE, piece_size), total_bytes,
                                         piece_length)]

\* the tail of Torrent::add_block once piece.add_block returned Ok
AfterAddBlock(p, checks) ==
    LET all == is_all_blocks_received(p, checks) IN
    IF all.res = "Panic" THEN [piece |-> p, ret |-> Panic]
    ELSE IF all.val
         THEN LET v == verify(p, checks) IN
              CASE v.ret.res = "Ok" -> [piece |-> v.piece, ret |-> Ok("unit")]
                [] v.ret.res = "Err" -> [piece |-> v.piece, ret |-> Err(v.ret.err)]
                [] OTHER -> [piece |-> v.piece, ret |-> Panic]
         ELSE [piece |-> p, ret |-> Ok("unit")]

\* Torrent::add_block: the picker is told of the block (its piece index and
\* its (piece_index, begin, data.len()) triple) before the piece is looked up
TorrentAddBlock(torrent, block, checks) ==
    LET mr == mark_received(torrent.piece_picker, block.piece_index,
                            BlockInfo(block.piece_index, block.begin,
                                      Len(block.data)))
        marked == [torrent EXCEPT !.piece_picker = mr.picker]
    IN  IF mr.ret.res = "Panic" THEN [torrent |-> marked, ret |-> Panic]
        ELSE IF block.piece_index < Len(torrent.pieces)
        THEN LET i == block.piece_index + 1
                 a == add_block(torrent.pieces[i], block)
             IN  IF a.ret.res = "Ok"
                 THEN LET r == AfterAddBlock(a.piece, checks)
                      IN  [torrent |-> [marked EXCEPT !.pieces[i] = r.piece],
                           ret |-> r.ret]
                 ELSE [torrent |-> marked, ret |-> Err(a.ret.err)]
        ELSE [torrent |-> marked, ret |-> Err("InvalidPieceIndex")]

(***************************************************************************)
(* PeerConnection (peer_connection.rs) and Session (session.rs)            *)
(***************************************************************************)
\* PeerConnection::new: BitField::with_capacity(n) is an empty bit vector
\* with room for n bits
PeerConnectionNew(bitfield_len) ==
    [peer_bitfield |-> <<>>,
     is_choked |-> TRUE,
     is_interesting |-> FALSE,
     is_peer_choked |-> TRUE,
     is_peer_interesting |-> FALSE,
     last_unchoked_at |-> None]

\* the piece_index, begin and length a message carries (0 where it has none)
MessageTriple(msg) ==
    CASE msg.tag = "Have" ->
            [piece_index |-> msg.piece_index, begin |-> 0, length |-> 0]
      [] msg.tag \in {"Request", "Cancel"} ->
            [piece_index |-> msg.piece_index, begin |-> msg.begin,
             length |-> msg.length]
      [] msg.tag = "Piece" ->
            [piece_index |-> msg.piece_index, begin |-> msg.begin,
             length |-> Len(msg.piece)]
      [] OTHER -> [piece_index |-> 0, begin |-> 0, length |-> 0]

\* a Session around a fresh PeerConnection whose public is_choked flag its
\* owner has set, with the history of the message tags handled so far, what
\* the last message carried, peer_bitfield, request_queue and the torrent's
\* picker as they were before the last message, and what Torrent::add_block
\* returned to the last message (Ok when it was not a Piece)
SessionNew(metainfo, is_choked) ==
    [pc |-> "Running",
     peer_connection |->
        [PeerConnectionNew(metainfo.total_bytes \div metainfo.piece_length)
            EXCEPT !.is_choked = is_choked],
     request_queue |-> <<>>,
     torrent |-> from_metainfo(metainfo),
     inbound |-> <<>>,
     last |-> [piece_index |-> 0, begin |-> 0, length |-> 0],
     bitfield_before |-> <<>>,
     queue_before |-> <<>>,
     picker_before |-> from_metainfo(metainfo).piece_picker,
     add_block_ret |-> Ok("unit")]

SessIdle == sess = SessionNew(CHOOSE m \in MetaInfos : TRUE, TRUE)

RECURSIVE RetainOthers(_, _)
\* request_queue.retain(|block| !block.is_same_block(&cancel_block))
RetainOthers(queue, cancel_block) ==
    IF queue = <<>> THEN <<>>
    ELSE IF ~is_same_block(queue[1], cancel_block)
         THEN <<queue[1]>> \o RetainOthers(Tail(queue), cancel_block)
         ELSE RetainOthers(Tail(queue), cancel_block)

\* Session::receive_msg; BitVec::set panics on an index past the end
receive_msg(s, msg, checks) ==
    CASE msg.tag = "KeepAlive" -> s
      [] msg.tag = "Interested" -> [s EXCEPT !.peer_connection.is_peer_interesting = TRUE]
      [] msg.tag = "NotInterested" -> [s EXCEPT !.peer_connection.is_peer_interesting = FALSE]
      [] msg.tag = "Choke" -> [s EXCEPT !.peer_connection.is_peer_choked = TRUE]
      [] msg.tag = "Unchoke" -> [s EXCEPT !.peer_connection.is_peer_choked = FALSE]
      [] msg.tag = "Have" ->
            IF msg.piece_index >= Len(s.peer_connection.peer_bitfield)
            THEN [s EXCEPT !.pc = "Panic"]
            ELSE [s EXCEPT !.peer_connection.peer_bitfield[msg.piece_index + 1] = TRUE]
      [] msg.tag = "Bitfield" ->
            [s EXCEPT !.peer_connection.peer_bitfield = msg.bitfield]
      [] msg.tag = "Request" ->
            IF ~s.peer_connection.is_choked
            THEN [s EXCEPT !.request_queue =
                    Append(@, BlockInfo(msg.piece_index, msg.begin, msg.length))]
            ELSE s
      [] msg.tag = "Piece" ->
            LET r == TorrentAddBlock(s.torrent,
                                     Block(msg.piece_index, msg.begin, msg.piece),
                                     checks)
            IN  [s EXCEPT !.torrent = r.torrent,
                          !.pc = IF r.ret.res = "Panic" THEN "Panic" ELSE @]
      [] msg.tag = "Cancel" ->
            [s EXCEPT !.request_queue =
                RetainOthers(@, BlockInfo(msg.piece_index, msg.begin, msg.length))]

\* one inbound message handed to receive_msg
SessReceive(msg) ==
    /\ sess.pc = "Running"
    /\ Len(sess.inbound) < MaxInbound
    /\ sess' = [receive_msg(sess, msg, overflow_checks) EXCEPT
                    !.inbound = Append(@, msg.tag),
                    !.last = MessageTriple(msg),
                    !.bitfield_before = sess.peer_connection.peer_bitfield,
                    !.queue_before = sess.request_queue,
                    !.picker_before = sess.torrent.piece_picker,
                    !.add_block_ret =
                        IF msg.tag = "Piece"
                        THEN TorrentAddBlock(sess.torrent,
                                             Block(msg.piece_index, msg.begin,
                                                   msg.piece),
                                             overflow_checks).ret
                        ELSE Ok("unit")]
    /\ UNCHANGED nonSessVars


(***************************************************************************)
(* PiecePicker (piece_picker.rs) as an object: new, pick_block,            *)
(* mark_received                                                           *)
(***************************************************************************)
\* pieces of the torrents the picker is built for
MaxPieces == 2

\* blocks remembered as returned by pick_block
MaxPicks == 2

PieceLengths == {1, BLOCK_SIZE, BLOCK_SIZE + 1, 2 * BLOCK_SIZE}

\* bit vectors of n bits
BitVecs(n) == [1..n -> BOOLEAN]

\* the arguments of PiecePicker::new: the owned bitfield has one bit per
\* piece, and total_length lies in the last piece
PickerInputs ==
    {[own_bitfield |-> b, total_length |-> t, piece_length |-> pl] :
        b \in UNION {BitVecs(n) : n \in 1..MaxPieces},
        pl \in PieceLengths,
        t \in {n * pl - d : n \in 1..MaxPieces, pl \in PieceLengths, d \in {0, 1}}}

PickerInputOk(i) ==
    /\ (Len(i.own_bitfield) - 1) * i.piece_length < i.total_length
    /\ i.total_length <= Len(i.own_bitfield) * i.piece_length

\* the peer bitfields pick_block is called with: a fresh PeerConnection's
\* (empty), and every bitfield of up to MaxPieces bits
PeerBitFields == UNION {BitVecs(n) : n \in 0..MaxPieces}

\* the begin and length of the blocks mark_received is called with; its
\* piece_index argument is the block's piece index or the next one
BlockLengths == {0, BLOCK_SIZE - 1, BLOCK_SIZE}

BlockBegins == {0, BLOCK_SIZE}

NoPickerCall(p) ==
    [op |-> "new", before |-> p, ret |-> Ok(None), peer_bitfield |-> <<>>,
     piece_index |-> 0, block |-> BlockInfo(0, 0, 0), picks |-> <<>>]

PickerIdle ==
    LET p == PiecePickerNew(<<FALSE>>, BLOCK_SIZE, BLOCK_SIZE) IN
    /\ piece_picker = p
    /\ pickres = NoPickerCall(p)

\* a task that panicked inside a PiecePicker call makes no further call
PickerLive == pickres.ret.res # "Panic"

\* pick_block(&peer_bitfield); a returned block is remembered in picks
PickerPickBlock(peer_bitfield) ==
    /\ PickerLive
    /\ Len(pickres.picks) < MaxPicks
    /\ LET r == pick_block(piece_picker, peer_bitfield) IN
        pickres' = [pickres EXCEPT
                        !.op = "pick_block", !.before = piece_picker, !.ret = r,
                        !.peer_bitfield = peer_bitfield,
                        !.picks = IF r.res = "Ok" /\ IsSome(r.val)
                                  THEN Append(@, Unwrap(r.val)) ELSE @]
    /\ UNCHANGED piece_picker
    /\ UNCHANGED nonPickerVars

\* mark_received(piece_index, &BlockInfo::new(of_piece, begin, length))
PickerMarkReceived(piece_index, of_piece, begin, length) ==
    /\ PickerLive
    /\ LET block == BlockInfo(of_piece, begin, length)
           r == mark_received(piece_picker, piece_index, block)
       IN  /\ piece_picker' = r.picker
           /\ pickres' = [pickres EXCEPT
                            !.op = "mark_received", !.before = piece_picker,
                            !.ret = r.ret, !.piece_index = piece_index,
                            !.block = block]
    /\ UNCHANGED nonPickerVars

(***************************************************************************)
(* Choker (choker.rs)                                                      *)
(***************************************************************************)
\* peers handed to the choker
MaxPeers == 3

\* the largest upload_slot
MaxSlots == 4

\* the latest Instant a peer was unchoked at
MaxInstant == 2

Less == "Less"

Equal == "Equal"

Greater == "Greater"

\* Option<Instant>::cmp: None before every Some, Somes by their instants
CmpOption(a, b) ==
    CASE a = None /\ b = None -> Equal
      [] a = None /\ b # None -> Less
      [] a # None /\ b = None -> Greater
      [] OTHER -> IF Unwrap(a) < Unwrap(b) THEN Less
                  ELSE IF Unwrap(a) > Unwrap(b) THEN Greater
                  ELSE Equal

\* a comparator that leaves the peers' interest out
unchoke_compare_by_time_only(a, b) ==
    CmpOption(a.last_unchoked_at, b.last_unchoked_at)

\* Choker::unchoke_compare_round_robin
unchoke_compare_round_robin(a, b) ==
    IF a.is_peer_interesting /\ ~b.is_peer_interesting THEN Less
    ELSE IF ~a.is_peer_interesting /\ b.is_peer_interesting THEN Greater
    ELSE CmpOption(a.last_unchoked_at, b.last_unchoked_at)

\* a PeerConnection as the choker sees it
make_peer(is_interested, last_unchoke_at) ==
    [PeerConnectionNew(30) EXCEPT !.is_peer_interesting = is_interested,
                                  !.last_unchoked_at = last_unchoke_at]

PeerKinds ==
    {make_peer(i, t) : i \in BOOLEAN,
                       t \in {None} \cup {Some(k) : k \in 1..MaxInstant}}

PeerLists == UNION {[1..n -> PeerKinds] : n \in 0..MaxPeers}

\* slice::select_nth_unstable_by(index, compare): every reordering of v in
\* which no element before index is greater than the one at index and no
\* element after it is less; which one is unspecified
SelectNth(v, index) ==
    {w \in {[i \in 1..Len(v) |-> v[f[i]]] : f \in Permutations(1..Len(v))} :
        /\ \A i \in 1..index :
                unchoke_compare_round_robin(w[i], w[index + 1]) # Greater
        /\ \A i \in (index + 2)..Len(v) :
                unchoke_compare_round_robin(w[i], w[index + 1]) # Less}

Min(a, b) == IF a < b THEN a ELSE b

NoChokerCall == [op |-> "new", before |-> <<>>, upload_slot |-> 0, ret |-> Ok(0)]

ChokerIdle ==
    /\ choker = [upload_slot |-> 1]
    /\ peers = <<>>
    /\ choke = NoChokerCall

\* a task that panicked inside sort_by_unchoke makes no further call
ChokerLive == choke.ret.res # "Panic"

\* Choker::set_upload_slot
ChokerSetUploadSlot(upload_slot) ==
    /\ ChokerLive
    /\ choker' = [choker EXCEPT !.upload_slot = upload_slot]
    /\ UNCHANGED <<peers, choke>>
    /\ UNCHANGED nonChokerVars

\* Choker::sort_by_unchoke that returned: upload_slot >= 1, the slice is
\* reordered by select_nth_unstable_by(upload_slot - 1, ..)
ChokerSort ==
    /\ ChokerLive
    /\ LET upload_slot == Min(choker.upload_slot, Len(peers)) IN
        /\ upload_slot >= 1
        /\ peers' \in SelectNth(peers, upload_slot - 1)
        /\ choke' = [op |-> "sort_by_unchoke", before |-> peers,
                     upload_slot |-> choker.upload_slot, ret |-> Ok(upload_slot)]
    /\ UNCHANGED choker
    /\ UNCHANGED nonChokerVars

\* Choker::sort_by_unchoke with min(upload_slot, peers.len()) = 0:
\* `upload_slot - 1` panics with overflow checks, and without them wraps to
\* usize::MAX, an index past the slice, on which select_nth_unstable_by
\* panics
ChokerSortPanic ==
    /\ ChokerLive
    /\ Min(choker.upload_slot, Len(peers)) = 0
    /\ choke' = [op |-> "sort_by_unchoke", before |-> peers,
                 upload_slot |-> choker.upload_slot, ret |-> Panic]
    /\ UNCHANGED <<choker, peers>>
    /\ UNCHANGED nonChokerVars


(***************************************************************************)
(* ThroughputRate (peer_stats.rs) as an object: new, record, rate, with    *)
(* the clock advancing between the calls                                   *)
(***************************************************************************)
\* the longest window, in seconds
MaxWindow == 2

\* the last second the clock reaches
MaxClock == 5

\* records made on one ThroughputRate
MaxRecords == 3

RECURSIVE SumBytes(_)
\* self.log.iter().map(|&(_, b)| b).sum()
SumBytes(log) ==
    IF log = <<>> THEN 0 ELSE log[1][2] + SumBytes(Tail(log))

\* ThroughputRate::rate: total as f64 / window.as_secs_f64(), kept as the
\* fraction total / secs
rate(r) == [total |-> SumBytes(r.log), secs |-> r.window]

\* the byte counts record is called with
RecordBytes == {1, 1000}

NoStatsCall == [op |-> "new", ret |-> [total |-> 0, secs |-> 1], recorded |-> <<>>]

StatsIdle ==
    /\ throughput = ThroughputRateNew(StatsWindowSecs)
    /\ clock = 0
    /\ rateres = NoStatsCall

\* time passes: one second
StatsAdvance ==
    /\ clock < MaxClock
    /\ clock' = clock + 1
    /\ UNCHANGED <<throughput, rateres>>
    /\ UNCHANGED nonStatsVars

\* ThroughputRate::record(bytes)
StatsRecord(bytes) ==
    /\ Len(rateres.recorded) < MaxRecords
    /\ throughput' = record(throughput, clock, bytes)
    /\ rateres' = [rateres EXCEPT !.op = "record",
                                  !.recorded = Append(@, <<clock, bytes>>)]
    /\ UNCHANGED clock
    /\ UNCHANGED nonStatsVars

\* ThroughputRate::rate()
StatsRate ==
    /\ rateres' = [rateres EXCEPT !.op = "rate", !.ret = rate(throughput)]
    /\ UNCHANGED <<throughput, clock>>
    /\ UNCHANGED nonStatsVars

(***************************************************************************)
(* Disk (disk.rs).  Lengths and offsets on disk count blocks of 16 KiB,    *)
(* so that 2^32 bytes, where a u32 wraps, is U32Blocks; a file is the set  *)
(* of the <<offset, content>> cells written to it, and the content of the  *)
(* torrent at a position is that position.                                 *)
(***************************************************************************)
\* 2^32 bytes in blocks of 16 KiB: a u32 byte count wraps here
U32Blocks == 262144

\* WritePiece commands sent to one Disk
MaxWrites == 3

\* blocks of a piece carried by one WritePiece
MaxCells == 2

\* the torrents the disk writes: MetaInfo.info's name, piece_length, length
\* (single file) and files (multi file)
DiskMetaInfos ==
    {[name |-> "a", piece_length |-> 2, length |-> Some(3), files |-> None],
     [name |-> "big", piece_length |-> 1024, length |-> Some(U32Blocks + 1024),
      files |-> None],
     [name |-> "t", piece_length |-> 1, length |-> None,
      files |-> Some(<<[length |-> 1, path |-> "t/f1"],
                       [length |-> 2, path |-> "t/f2"]>>)],
     [name |-> "t", piece_length |-> 2, length |-> None,
      files |-> Some(<<[length |-> 1, path |-> "t/f1"],
                       [length |-> 2, path |-> "t/f2"]>>)]}

RECURSIVE SumLengths(_)
SumLengths(files) ==
    IF files = <<>> THEN 0 ELSE files[1].length + SumLengths(Tail(files))

\* MetaInfo::total_bytes
metainfo_total_bytes(metainfo) ==
    IF IsSome(metainfo.length) THEN Unwrap(metainfo.length)
    ELSE SumLengths(Unwrap(metainfo.files))

RECURSIVE FileAt(_, _)
\* the loop of Disk::filepath and Disk::offset_of_file: the first file the
\* running offset falls in, with the offset left; none past the last file
FileAt(files, offset) ==
    IF files = <<>> THEN None
    ELSE IF offset < files[1].length
         THEN Some([path |-> files[1].path, offset |-> offset])
         ELSE FileAt(Tail(files), offset - files[1].length)

\* Disk::filepath, joined with "/"
filepath(metainfo, piece_index) ==
    IF IsSome(metainfo.length) THEN Ok(metainfo.name)
    ELSE LET f == FileAt(Unwrap(metainfo.files), piece_index * metainfo.piece_length)
         IN  IF IsSome(f) THEN Ok(Unwrap(f).path) ELSE Panic

\* Disk::offset_of_file: a u32; the single-file product is a u32
\* multiplication, the multi-file offset a u64 cast to u32
offset_of_file(metainfo, piece_index, checks) ==
    IF IsSome(metainfo.length)
    THEN IF piece_index * metainfo.piece_length >= U32Blocks /\ checks
         THEN Panic
         ELSE Ok((piece_index * metainfo.piece_length) % U32Blocks)
    ELSE LET f == FileAt(Unwrap(metainfo.files), piece_index * metainfo.piece_length)
         IN  IF IsSome(f) THEN Ok(Unwrap(f).offset % U32Blocks) ELSE Panic

\* the paths the files of a torrent are written at
Paths(metainfo) ==
    IF IsSome(metainfo.length) THEN {metainfo.name}
    ELSE {Unwrap(metainfo.files)[k].path : k \in 1..Len(Unwrap(metainfo.files))}

NoFile == [exists |-> FALSE, cells |-> {}]

\* seek(Start(offset)), write_all(data), flush on a file opened with
\* write + create: the cells from offset on are replaced, the rest is kept
WriteAt(file, offset, data) ==
    [exists |-> TRUE,
     cells |-> {c \in file.cells : c[1] < offset \/ c[1] >= offset + Len(data)}
               \cup {<<offset + k - 1, data[k]>> : k \in 1..Len(data)}]

\* the number of pieces of a torrent
NumPieces(metainfo) ==
    (metainfo_total_bytes(metainfo) + metainfo.piece_length - 1)
        \div metainfo.piece_length

\* the bytes of piece i of the torrent, at most MaxCells blocks of them
PieceData(metainfo, i) ==
    LET total == metainfo_total_bytes(metainfo)
        start == i * metainfo.piece_length
        len == Min(Min(metainfo.piece_length, total - start), MaxCells)
    IN  [k \in 1..len |-> start + k - 1]

\* the pieces written: the first two and the last one
PieceIndexes(metainfo) ==
    {i \in {0, 1, NumPieces(metainfo) - 1} : i < NumPieces(metainfo)}

\* how a WritePiece ends: done, or the first call that fails
IoOutcomes == {"ok", "create_dir_all", "open", "seek", "write_all"}

Command(tag, index, data) == [tag |-> tag, index |-> index, data |-> data]

\* Disk::new: the channel is empty and the task is spawned
DiskNew(metainfo) ==
    [meta |-> metainfo,
     owner |-> "Open",
     queue |-> <<>>,
     task |-> "Running",
     fs |-> [p \in Paths(metainfo) |-> NoFile],
     reply |-> None]

NoDiskCall ==
    [op |-> "new", io |-> "ok", enqueued |-> <<>>, taken |-> 0, written |-> <<>>,
     shutdown_sent |-> FALSE, left |-> 0]

DiskIdle ==
    /\ disk = DiskNew(CHOOSE m \in DiskMetaInfos : m.name = "a")
    /\ diskres = NoDiskCall

\* a channel that hands the newest command out first
send_to_front(queue, command) == <<command>> \o queue

\* UnboundedSender::send on an open channel: the command goes to the back
\* of the queue, and recv() takes from the front
send(queue, command) == Append(queue, command)

\* the receiver is dropped once the task has ended: send returns Err
ReceiverGone == disk.task # "Running"

\* the Disk, and with it the only sender, is dropped when shutdown or
\* bitfield returns or unwinds
SenderGone == disk.owner \in {"Done", "Replied", "Panicked"}

\* Disk::write_piece: send(..).unwrap()
DiskWritePiece(index) ==
    /\ disk.owner = "Open"
    /\ Len(diskres.enqueued) < MaxWrites
    /\ IF ReceiverGone
       THEN /\ disk' = [disk EXCEPT !.owner = "Panicked"]
            /\ UNCHANGED diskres
       ELSE /\ disk' = [disk EXCEPT !.queue =
                    send(@, Command("WritePiece", index, PieceData(disk.meta, index)))]
            /\ diskres' = [diskres EXCEPT !.enqueued = Append(@, index)]
    /\ UNCHANGED nonDiskVars

\* Disk::shutdown up to handle.await: the Shutdown command is sent
DiskShutdown ==
    /\ disk.owner = "Open"
    /\ IF ReceiverGone
       THEN /\ disk' = [disk EXCEPT !.owner = "Panicked"]
            /\ UNCHANGED diskres
       ELSE /\ disk' = [disk EXCEPT !.owner = "ShuttingDown",
                                    !.queue = send(@, Command("Shutdown", 0, <<>>))]
            /\ diskres' = [diskres EXCEPT !.shutdown_sent = TRUE]
    /\ UNCHANGED nonDiskVars

\* Disk::shutdown from handle.await on: the task has ended; unwrap panics
\* on the JoinError of a task that panicked
DiskShutdownJoined ==
    /\ disk.owner = "ShuttingDown"
    /\ disk.task # "Running"
    /\ disk' = [disk EXCEPT !.owner = IF disk.task = "Exited" THEN "Done"
                                      ELSE "Panicked"]
    /\ UNCHANGED diskres
    /\ UNCHANGED nonDiskVars

\* Disk::bitfield up to rx.await: the BitField command is sent
DiskBitfield ==
    /\ disk.owner = "Open"
    /\ disk' = IF ReceiverGone
               THEN [disk EXCEPT !.owner = "Panicked"]
               ELSE [disk EXCEPT !.owner = "AwaitReply",
                                 !.queue = send(@, Command("BitField", 0, <<>>))]
    /\ UNCHANGED diskres
    /\ UNCHANGED nonDiskVars

\* Disk::bitfield from rx.await on: the reply has come, or the command was
\* dropped with the task and unwrap panics on the RecvError
DiskBitfieldReplied ==
    /\ disk.owner = "AwaitReply"
    /\ IsSome(disk.reply) \/ ReceiverGone
    /\ disk' = [disk EXCEPT !.owner = IF IsSome(disk.reply) THEN "Replied"
                                      ELSE "Panicked"]
    /\ UNCHANGED diskres
    /\ UNCHANGED nonDiskVars

\* Disk::handle_command on WritePiece: every I/O result is unwrapped
handle_write_piece(d, command, io, checks) ==
    LET path == filepath(d.meta, command.index)
        offset == offset_of_file(d.meta, command.index, checks)
    IN  IF path.res = "Panic" \/ offset.res = "Panic"
        THEN [d EXCEPT !.task = "Panicked", !.queue = <<>>]
        ELSE CASE io = "ok" ->
                    [d EXCEPT !.queue = Tail(@),
                              !.fs[path.val] = WriteAt(@, offset.val, command.data)]
               [] io \in {"seek", "write_all"} ->
                    [d EXCEPT !.task = "Panicked", !.queue = <<>>,
                              !.fs[path.val].exists = TRUE]
               [] OTHER ->
                    [d EXCEPT !.task = "Panicked", !.queue = <<>>]

\* the task: recv() yields a WritePiece, handle_command runs it
DiskTaskWrite(io) ==
    /\ disk.task = "Running"
    /\ disk.queue # <<>>
    /\ disk.queue[1].tag = "WritePiece"
    /\ disk' = handle_write_piece(disk, disk.queue[1], io, overflow_checks)
    /\ diskres' = [diskres EXCEPT
            !.op = "WritePiece", !.io = io, !.taken = @ + 1,
            !.left = Len(disk.queue) - 1,
            !.written = IF disk'.task = "Running"
                        THEN Append(@, <<disk.queue[1].index, disk.queue[1].data>>)
                        ELSE @]
    /\ UNCHANGED nonDiskVars

\* the task: recv() yields a BitField, handle_command replies
DiskTaskBitField ==
    /\ disk.task = "Running"
    /\ disk.queue # <<>>
    /\ disk.queue[1].tag = "BitField"
    /\ LET piece_length == disk.meta.piece_length
           total_bytes == metainfo_total_bytes(disk.meta)
           piece_size == total_bytes \div piece_length
       IN  disk' = [disk EXCEPT !.queue = Tail(@),
                                !.reply = Some(Repeat(FALSE, piece_size))]
    /\ diskres' = [diskres EXCEPT !.op = "BitField", !.io = "ok",
                                  !.left = Len(disk.queue) - 1]
    /\ UNCHANGED nonDiskVars

\* the task: recv() yields Shutdown, the loop breaks
DiskTaskShutdown ==
    /\ disk.task = "Running"
    /\ disk.queue # <<>>
    /\ disk.queue[1].tag = "Shutdown"
    /\ disk' = [disk EXCEPT !.task = "Exited", !.queue = <<>>]
    /\ diskres' = [diskres EXCEPT !.op = "Shutdown", !.io = "ok",
                                  !.left = Len(disk.queue) - 1]
    /\ UNCHANGED nonDiskVars

\* the task: recv() yields None, the queue is empty and the sender dropped
DiskTaskClosed ==
    /\ disk.task = "Running"
    /\ disk.queue = <<>>
    /\ SenderGone
    /\ disk' = [disk EXCEPT !.task = "Exited"]
    /\ diskres' = [diskres EXCEPT !.op = "Closed", !.io = "ok", !.left = 0]
    /\ UNCHANGED nonDiskVars

(***************************************************************************)
(* Sessions sharing one Torrent (session.rs, torrent.rs): the Piece arm of *)
(* Session::receive_msg and Torrent::add_block, from await to await, with  *)
(* the two tokio::sync::Mutex locks                                        *)
(***************************************************************************)
\* peer sessions of the torrent
MaxSessions == 2

Sessions == 1..MaxSessions

\* the payload of the Piece messages: a block of one byte, which is the
\* last block of a torrent of 3 * BLOCK_SIZE + 1 bytes
LastBlock == <<170>>

\* tokio::sync::Mutex: the task holding the guard (0 when it is free) and
\* the tasks waiting for it, first come first served
MutexNew == [owner |-> 0, waiters |-> <<>>]

\* Mutex::lock() polled by task t: the lock is taken when free, otherwise
\* the task joins the waiters
lock(m, t) ==
    IF m.owner = 0 THEN [m EXCEPT !.owner = t]
    ELSE [m EXCEPT !.waiters = Append(@, t)]

\* a guard that is forgotten instead of dropped
unlock_leaked(m) == m

\* MutexGuard dropped: the lock goes to the task waiting longest, if any
unlock(m) ==
    IF m.waiters = <<>> THEN [m EXCEPT !.owner = 0]
    ELSE [owner |-> Head(m.waiters), waiters |-> Tail(m.waiters)]

\* a session task before its first message, with the add_block calls it
\* has completed (the set of the blocks' begin and the result)
TaskNew ==
    [pc |-> "Idle", begin |-> 0, calls |-> {}]

LocksIdle ==
    /\ mutexes = [torrent |-> MutexNew, piece_picker |-> MutexNew]
    /\ aggregate = from_metainfo(CHOOSE m \in MetaInfos : TRUE)
    /\ tasks = [t \in Sessions |-> TaskNew]

\* receive_msg, Piece arm: a Piece message for piece 0 at begin has come and
\* the session polls self.torrent.lock()
SessLockTorrent(t, begin) ==
    /\ tasks[t].pc = "Idle"
    /\ mutexes' = [mutexes EXCEPT !.torrent = lock(@, t)]
    /\ tasks' = [tasks EXCEPT ![t].pc = "AwaitTorrent",
                              ![t].begin = begin]
    /\ UNCHANGED aggregate
    /\ UNCHANGED nonLocksVars

\* the task resumes with the torrent guard, calls add_block and polls
\* self.piece_picker.lock()
SessLockPicker(t) ==
    /\ tasks[t].pc = "AwaitTorrent"
    /\ mutexes.torrent.owner = t
    /\ mutexes' = [mutexes EXCEPT !.piece_picker = lock(@, t)]
    /\ tasks' = [tasks EXCEPT ![t].pc = "AwaitPicker"]
    /\ UNCHANGED aggregate
    /\ UNCHANGED nonLocksVars

\* the task resumes with the picker guard and runs the rest of add_block
\* and of the arm, which holds no await: both guards are dropped on the
\* way out, by return or by unwinding
SessAddBlock(t) ==
    /\ tasks[t].pc = "AwaitPicker"
    /\ mutexes.piece_picker.owner = t
    /\ LET r == TorrentAddBlock(aggregate,
                                Block(0, tasks[t].begin, LastBlock),
                                overflow_checks)
       IN  /\ aggregate' = r.torrent
           /\ tasks' = [tasks EXCEPT
                    ![t].pc = IF r.ret.res = "Panic" THEN "Panicked" ELSE "Idle",
                    ![t].calls = @ \cup {<<tasks[t].begin, r.ret.res>>}]
    /\ mutexes' = [torrent |-> unlock(mutexes.torrent),
                   piece_picker |-> unlock(mutexes.piece_picker)]
    /\ UNCHANGED nonLocksVars

(***************************************************************************)
(* Specifications: one per component, the other components left idle       *)
(***************************************************************************)
InitCodec ==
    /\ LocksIdle
    /\ DiskIdle
    /\ StatsIdle
    /\ CodecIdle /\ HsIdle /\ PieceIdle /\ ActiveIdle /\ SessIdle
    /\ PickerIdle /\ ChokerIdle

NextCodec ==
    \/ \E m \in Messages : CodecSend(m)
    \/ \E n \in 1..Len(wire) : CodecDeliver(n)
    \/ \E b \in RecvBytes : CodecRecv(b)
    \/ CodecDecode
    \/ CodecReset

SpecCodec == InitCodec /\ [][NextCodec]_vars

InitHandshake ==
    /\ LocksIdle
    /\ DiskIdle
    /\ StatsIdle
    /\ CodecIdle /\ PieceIdle /\ ActiveIdle /\ SessIdle
    /\ PickerIdle /\ ChokerIdle
    /\ hs \in {HsStart(h) : h \in Hashes}

NextHandshake ==
    \/ \E ok \in BOOLEAN : HsSend(ok)
    \/ \E i \in Hashes, p \in PeerIds : HsReply(i, p)
    \/ \E bytes \in BadReplies : HsReplyBad(bytes)
    \/ \E n \in 1..Len(hs.wire), ok \in BOOLEAN : HsRead(n, ok)
    \/ \E ok \in BOOLEAN : HsEof(ok)

SpecHandshake == InitHandshake /\ [][NextHandshake]_vars

InitPiece ==
    /\ LocksIdle
    /\ DiskIdle
    /\ StatsIdle
    /\ CodecIdle /\ HsIdle /\ ActiveIdle /\ SessIdle
    /\ PickerIdle /\ ChokerIdle
    /\ piece \in {new_unverified(0, calculate_sha1_hash(c), Len(c)) : c \in Contents}
                \cup {new_verified(0, calculate_sha1_hash(c), Len(c), c) : c \in Contents}
    /\ pres = NoPieceCall
    /\ overflow_checks \in BOOLEAN

NextPiece ==
    \/ \E b \in 0..MaxBegin, d \in PieceDatas : PieceAddBlock(b, d)
    \/ PieceIsAllBlocksReceived
    \/ PieceVerify
    \/ \E b \in 0..MaxBegin, l \in 0..MaxPieceLen : PieceRequest(b, l)

SpecPiece == InitPiece /\ [][NextPiece]_vars

InitActive ==
    /\ LocksIdle
    /\ DiskIdle
    /\ StatsIdle
    /\ CodecIdle /\ HsIdle /\ PieceIdle /\ SessIdle
    /\ PickerIdle /\ ChokerIdle
    /\ active = ActiveSessionNew

NextActive ==
    \/ ActiveTick
    \/ \E m \in SessionMessages : ActiveRecv(m)
    \/ ActiveRecvErr
    \/ ActiveEof

SpecActive == InitActive /\ [][NextActive]_vars

InitSession ==
    /\ LocksIdle
    /\ DiskIdle
    /\ StatsIdle
    /\ CodecIdle /\ HsIdle /\ ActiveIdle
    /\ PickerIdle /\ ChokerIdle
    /\ piece = new_unverified(0, calculate_sha1_hash(<<>>), 0)
    /\ pres = NoPieceCall
    /\ overflow_checks \in BOOLEAN
    /\ sess \in {SessionNew(m, c) : m \in MetaInfos, c \in BOOLEAN}

NextSession ==
    \/ \E m \in SessionMessages : SessReceive(m)

SpecSession == InitSession /\ [][NextSession]_vars


InitPicker ==
    /\ LocksIdle
    /\ DiskIdle
    /\ StatsIdle
    /\ CodecIdle /\ HsIdle /\ PieceIdle /\ ActiveIdle /\ SessIdle
    /\ ChokerIdle
    /\ piece_picker \in {PiecePickerNew(i.own_bitfield, i.total_length, i.piece_length) :
                        i \in {x \in PickerInputs : PickerInputOk(x)}}
    /\ pickres = NoPickerCall(piece_picker)

NextPicker ==
    \/ \E b \in PeerBitFields : PickerPickBlock(b)
    \/ \E j \in 0..(MaxPieces - 1), d \in {0, 1}, b \in BlockBegins,
          l \in BlockLengths : PickerMarkReceived(j + d, j, b, l)

SpecPicker == InitPicker /\ [][NextPicker]_vars

InitChoker ==
    /\ LocksIdle
    /\ DiskIdle
    /\ StatsIdle
    /\ CodecIdle /\ HsIdle /\ PieceIdle /\ ActiveIdle /\ SessIdle
    /\ PickerIdle
    /\ choker \in {[upload_slot |-> n] : n \in 0..MaxSlots}
    /\ peers \in PeerLists
    /\ choke = NoChokerCall

NextChoker ==
    \/ \E n \in 0..MaxSlots : ChokerSetUploadSlot(n)
    \/ ChokerSort
    \/ ChokerSortPanic

SpecChoker == InitChoker /\ [][NextChoker]_vars

InitStats ==
    /\ LocksIdle
    /\ DiskIdle
    /\ CodecIdle /\ HsIdle /\ PieceIdle /\ ActiveIdle /\ SessIdle
    /\ PickerIdle /\ ChokerIdle
    /\ throughput \in {ThroughputRateNew(w) : w \in 1..MaxWindow}
    /\ clock = 0
    /\ rateres = NoStatsCall

NextStats ==
    \/ StatsAdvance
    \/ \E b \in RecordBytes : StatsRecord(b)
    \/ StatsRate

SpecStats == InitStats /\ [][NextStats]_vars

InitDisk ==
    /\ LocksIdle
    /\ CodecIdle /\ HsIdle /\ ActiveIdle /\ SessIdle
    /\ PickerIdle /\ ChokerIdle /\ StatsIdle
    /\ piece = new_unverified(0, calculate_sha1_hash(<<>>), 0)
    /\ pres = NoPieceCall
    /\ overflow_checks \in BOOLEAN
    /\ disk \in {DiskNew(m) : m \in DiskMetaInfos}
    /\ diskres = NoDiskCall

NextDisk ==
    \/ \E i \in PieceIndexes(disk.meta) : DiskWritePiece(i)
    \/ DiskShutdown
    \/ DiskShutdownJoined
    \/ DiskBitfield
    \/ DiskBitfieldReplied
    \/ \E io \in IoOutcomes : DiskTaskWrite(io)
    \/ DiskTaskBitField
    \/ DiskTaskShutdown
    \/ DiskTaskClosed

SpecDisk == InitDisk /\ [][NextDisk]_vars

InitLocks ==
    /\ CodecIdle /\ HsIdle /\ ActiveIdle /\ SessIdle
    /\ PickerIdle /\ ChokerIdle /\ StatsIdle /\ DiskIdle
    /\ piece = new_unverified(0, calculate_sha1_hash(<<>>), 0)
    /\ pres = NoPieceCall
    /\ overflow_checks \in BOOLEAN
    /\ mutexes = [torrent |-> MutexNew, piece_picker |-> MutexNew]
    /\ aggregate \in {from_metainfo(m) : m \in MetaInfos}
    /\ tasks = [t \in Sessions |-> TaskNew]

NextLocks ==
    \/ \E t \in Sessions, b \in {0, BLOCK_SIZE} : SessLockTorrent(t, b)
    \/ \E t \in Sessions : SessLockPicker(t)
    \/ \E t \in Sessions : SessAddBlock(t)

SpecLocks == InitLocks /\ [][NextLocks]_vars

\* the runtime polls every task that was woken: a session that holds, or
\* was handed, a lock goes on
SpecLocksFair ==
    /\ SpecLocks
    /\ \A t \in Sessions : WF_vars(SessLockPicker(t)) /\ WF_vars(SessAddBlock(t))


(***************************************************************************)
(* Claims                                                                  *)
(***************************************************************************)

\* C1: a Bitfield message handled after an earlier Bitfield was accepted is
\* ignored: the stored peer bitfield is the one it was before the call, and
\* the session reports no error.  Stated of Session::receive_msg.
C1_SecondBitfieldIgnored ==
    LET n == Len(sess.inbound) IN
    (/\ n >= 2
     /\ sess.inbound[n] = "Bitfield"
     /\ \E i \in 1..(n - 1) : sess.inbound[i] = "Bitfield")
    => (/\ sess.pc = "Running"
        /\ sess.peer_connection.peer_bitfield = sess.bitfield_before)

\* C2: a Bitfield that arrives after some other message, no Bitfield having
\* been accepted yet, is a protocol error: the session is Disconnected and
\* the bitfield is not stored.  Stated of ActiveSession::on_message and run.
C2_BitfieldOnlyFirst ==
    LET n == Len(active.inbound) IN
    (/\ n >= 2
     /\ active.inbound[n] = "Bitfield"
     /\ \A i \in 1..(n - 1) : active.inbound[i] # "Bitfield")
    => (/\ active.pc = "Disconnected"
        /\ active.bitfield = active.bitfield_before)

\* the remote peer's reply was a well-formed handshake and the decoder has
\* been run on all 68 bytes of it
HsReplyDecoded ==
    /\ IsSome(hs.reply)
    /\ hs.out.before = HandShakeEncode(Unwrap(hs.reply), <<>>)

\* C3: once the well-formed reply has been read, handshake() has returned
\* Active if and only if the reply's info hash equals the local one, and
\* for a different info hash it has closed the socket and returned
\* Disconnected (or the error of a failed close).
C3_ActiveIffSameInfoHash ==
    HsReplyDecoded =>
        IF Unwrap(hs.reply).info_hash = hs.info_hash
        THEN hs.pc = "Active"
        ELSE /\ hs.pc \in {"Disconnected", "Err"}
             /\ hs.pc = "Disconnected" <=> hs.closed

\* C4: decoding the 68 bytes the encoder wrote for a handshake returns the
\* same info_hash and peer_id and leaves nothing of the 68 bytes behind.
C4_HandshakeRoundTrip ==
    HsReplyDecoded =>
        /\ Len(hs.out.before) = HandShakeLen
        /\ hs.out.res = "Some"
        /\ Unwrap(hs.out.msg) = Unwrap(hs.reply)
        /\ hs.out.after = <<>>

\* C5: decode(encode(m)) = m, and the buffer is left empty, for every
\* message m.
C5_MessageRoundTrip ==
    (/\ IsSome(item)
     /\ out.before = MessageEncode(Unwrap(item), <<>>))
    => (/\ out.res = "Some"
        /\ out.msg = item
        /\ out.after = <<>>)

\* C6: the 4-byte big-endian length prefix the encoder wrote equals the
\* number of bytes it wrote after the prefix, and Request{0, 0, 16384} is
\* the 17 bytes 00 00 00 0d 06 00 00 00 00 00 00 00 00 00 00 40 00.
C6_LengthPrefixCountsFrame ==
    (/\ IsSome(item)
     /\ wire = MessageEncode(Unwrap(item), <<>>))
    => (/\ BeU32(wire) = Len(wire) - 4
        /\ (Unwrap(item) = [tag |-> "Request", piece_index |-> 0, begin |-> 0,
                            length |-> 16384])
            => wire = <<0, 0, 0, 13, 6, 0, 0, 0, 0, 0, 0, 0, 0, 0, 0, 64, 0>>)

\* the decoder was run on a buffer that holds less than one whole frame
ShortBuffer(s) == Len(s) < 4 \/ Len(s) < 4 + BeU32(s)

\* C7: decode called with fewer than 4 + length bytes buffered (fewer than
\* 4 included) returns no message and leaves the buffer as it was; it
\* returns a message only from a whole frame.
C7_PartialFrameKept ==
    /\ (out.res # "NoCall" /\ ShortBuffer(out.before))
        => (out.res = "None" /\ out.after = out.before)
    /\ out.res = "Some" => ~ShortBuffer(out.before)

\* C7: a length prefix and part of its frame were buffered, decode returned
\* no message and the read buffer still holds them.
C7_PartialFrameSeen ==
    /\ out.res = "None"
    /\ Len(out.before) > 4
    /\ Len(out.before) < 4 + BeU32(out.before)
    /\ src = out.before

RECURSIVE Assemble(_, _)
\* the buffer the specification describes: each block written at its begin
\* offset into buf, later blocks overwriting earlier ones
Assemble(buf, blocks) ==
    IF blocks = <<>> THEN buf
    ELSE Assemble(
            [i \in 1..Len(buf) |->
                IF blocks[1].begin < i /\ i <= blocks[1].begin + Len(blocks[1].data)
                THEN blocks[1].data[i - blocks[1].begin]
                ELSE buf[i]],
            Tail(blocks))

\* the blocks lie inside the piece and tile it: every offset is covered and
\* the lengths add up to the piece's length
Tiles(length, blocks) ==
    /\ blocks # <<>>
    /\ Len(blocks[1].data) > 0
    /\ \A k \in 1..Len(blocks) : blocks[k].begin + Len(blocks[k].data) <= length
    /\ \A i \in 1..length : \E k \in 1..Len(blocks) :
            blocks[k].begin < i /\ i <= blocks[k].begin + Len(blocks[k].data)
    /\ SumLen(blocks) = length

\* verify() was called on an Unverified piece whose blocks tile it
VerifiedTiled ==
    /\ pres.op = "verify"
    /\ pres.before.tag = "UnVerified"
    /\ Tiles(piece.length, pres.before.blocks)

\* C8: when the blocks of an Unverified piece, written at their offsets
\* into a buffer of piece.length bytes, hash to the expected hash, verify()
\* returns that buffer and the piece is Verified with it, whatever the order
\* of the blocks.
C8_VerifyAssembles ==
    LET buf == Assemble(Repeat(0, piece.length), pres.before.blocks) IN
    (VerifiedTiled /\ calculate_sha1_hash(buf) = piece.hash)
    => (/\ pres.ret.res = "Ok"
        /\ pres.ret.val = buf
        /\ piece.status = Verified(buf))

\* C9: when the assembled buffer's hash differs from the expected hash,
\* verify() fails with InvalidHash and the piece stays Unverified with its
\* blocks.
C9_MismatchIsInvalidHash ==
    LET buf == Assemble(Repeat(0, piece.length), pres.before.blocks) IN
    (VerifiedTiled /\ calculate_sha1_hash(buf) # piece.hash)
    => (/\ pres.ret = Err("InvalidHash")
        /\ piece.status = pres.before)

\* the sum of the received lengths is within one block (the first received
\* block's length) of the piece's length, on either side
WithinOneBlock(length, blocks) ==
    /\ blocks # <<>>
    /\ LET d == length - SumLen(blocks) IN
       (IF d >= 0 THEN d ELSE 0 - d) < Len(blocks[1].data)

\* C10: on an Unverified piece, with any blocks (none, or more bytes than
\* the piece holds), is_all_blocks_received returns true exactly when the
\* received lengths are within one block of piece.length, and otherwise
\* verify() fails with IncompleteBlocks.
C10_CompleteIffWithinOneBlock ==
    /\ (pres.op = "is_all_blocks_received" /\ pres.before.tag = "UnVerified")
        => (/\ pres.ret.res = "Ok"
            /\ pres.ret.val = WithinOneBlock(piece.length, pres.before.blocks))
    /\ (/\ pres.op = "verify"
        /\ pres.before.tag = "UnVerified"
        /\ ~WithinOneBlock(piece.length, pres.before.blocks))
        => pres.ret = Err("IncompleteBlocks")

LengthOfPiece(p, i) ==
    IF i = Len(p.own_bitfield) - 1
    THEN p.total_length - i * p.piece_length
    ELSE p.piece_length

\* the block offsets 0, BLOCK_SIZE, 2 * BLOCK_SIZE, ... below len
OffsetsBelow(len) == {k * BLOCK_SIZE : k \in 0..((len - 1) \div BLOCK_SIZE)}

\* how many BlockInfos of the pool are at (piece i, offset o)
CountAt(p, i, o) ==
    Cardinality({k \in 1..Len(p.missing_blocks) :
                    /\ p.missing_blocks[k].piece_index = i
                    /\ p.missing_blocks[k].begin = o})

\* C12: after PiecePicker::new, every block offset below the length of every
\* piece not yet owned is in the pool exactly once, and an owned piece has
\* no block in the pool.
C12_PoolCoversMissingPieces ==
    pickres.op = "new" =>
        \A i \in 0..(Len(piece_picker.own_bitfield) - 1) :
            IF piece_picker.own_bitfield[i + 1]
            THEN \A k \in 1..Len(piece_picker.missing_blocks) :
                    piece_picker.missing_blocks[k].piece_index # i
            ELSE \A o \in OffsetsBelow(LengthOfPiece(piece_picker, i)) :
                    CountAt(piece_picker, i, o) = 1

\* block k of the pool is the last block of the last piece
IsLastOfLast(p, k) ==
    /\ p.missing_blocks[k].piece_index = Len(p.own_bitfield) - 1
    /\ \A j \in 1..Len(p.missing_blocks) :
            p.missing_blocks[j].piece_index = p.missing_blocks[k].piece_index
                => p.missing_blocks[j].begin <= p.missing_blocks[k].begin

\* C13: in the pool the last block of the last piece has length
\* total_length mod BLOCK_SIZE, or BLOCK_SIZE when that is 0; every other
\* block has length BLOCK_SIZE; no block has length 0.
C13_LastBlockLength ==
    \A k \in 1..Len(piece_picker.missing_blocks) :
        /\ piece_picker.missing_blocks[k].length # 0
        /\ piece_picker.missing_blocks[k].length =
            IF IsLastOfLast(piece_picker, k)
                /\ piece_picker.total_length % BLOCK_SIZE # 0
            THEN piece_picker.total_length % BLOCK_SIZE
            ELSE BLOCK_SIZE

\* the pool's blocks a peer with these bits can be asked for: the piece's
\* bit is set in the peer's bitfield and the block is NotRequested
Wanted(p, bits) ==
    {k \in 1..Len(p.missing_blocks) :
        /\ p.missing_blocks[k].piece_index < Len(bits)
        /\ bits[p.missing_blocks[k].piece_index + 1]
        /\ p.missing_blocks[k].state = "NotRequested"}

\* block a comes before block b: lower piece index, then lower offset
Before(a, b) ==
    \/ a.piece_index < b.piece_index
    \/ a.piece_index = b.piece_index /\ a.begin <= b.begin

\* C14: pick_block returns the first block, by piece index and then offset,
\* whose piece the peer has and which is NotRequested, and returns none
\* exactly when there is no such block.
C14_PickFirstWanted ==
    pickres.op = "pick_block" =>
        LET p == pickres.before
            w == Wanted(p, pickres.peer_bitfield)
        IN  /\ pickres.ret.res = "Ok"
            /\ IF w = {} THEN pickres.ret.val = None
               ELSE \E k \in w :
                    /\ \A j \in w : Before(p.missing_blocks[k], p.missing_blocks[j])
                    /\ pickres.ret.val = Some(p.missing_blocks[k])

\* C15: a block pick_block returned is Requested afterwards, and no block is
\* returned by two pick_block calls.
C15_PickedOnce ==
    /\ \A i \in 1..Len(pickres.picks) :
        \A k \in 1..Len(piece_picker.missing_blocks) :
            is_same_block(piece_picker.missing_blocks[k], pickres.picks[i])
                => piece_picker.missing_blocks[k].state # "NotRequested"
    /\ \A i, j \in 1..Len(pickres.picks) :
        i # j => ~is_same_block(pickres.picks[i], pickres.picks[j])

\* the blocks of the pool that mark_received's block argument matches
Matching(p, block) ==
    {k \in 1..Len(p.missing_blocks) : is_same_block(p.missing_blocks[k], block)}

\* every BlockInfo of piece i in the pool is Received
AllReceived(p, i) ==
    \A k \in 1..Len(p.missing_blocks) :
        p.missing_blocks[k].piece_index = i => p.missing_blocks[k].state = "Received"

\* C16: mark_received sets the matching BlockInfo to Received and nothing
\* else in the pool, and sets the owned bit of the block's piece exactly
\* when every BlockInfo of that piece is then Received; a block matching no
\* BlockInfo changes nothing.
C16_MarkReceivedSetsPieceBit ==
    pickres.op = "mark_received" =>
        LET p == pickres.before
            block == pickres.block
            hit == Matching(p, block)
        IN  /\ pickres.ret.res = "Ok"
            /\ IF hit = {} THEN piece_picker = p
               ELSE /\ piece_picker.missing_blocks =
                        [k \in 1..Len(p.missing_blocks) |->
                            IF k \in hit
                            THEN [p.missing_blocks[k] EXCEPT !.state = "Received"]
                            ELSE p.missing_blocks[k]]
                    /\ piece_picker.own_bitfield =
                        [i \in 1..Len(p.own_bitfield) |->
                            IF i = block.piece_index + 1
                                /\ AllReceived(piece_picker, block.piece_index)
                            THEN TRUE
                            ELSE p.own_bitfield[i]]

C18_ReturnsEffectiveSlots ==
    choke.op = "sort_by_unchoke" =>
        choke.ret = Ok(Min(choke.upload_slot, Len(choke.before)))

\* the unchoke ordering: a comes no later than b when a alone is
\* interested, or when both are alike in interest and a was unchoked no
\* later than b, a peer never unchoked being the oldest
RanksNoLater(a, b) ==
    IF a.is_peer_interesting # b.is_peer_interesting
    THEN a.is_peer_interesting
    ELSE \/ a.last_unchoked_at = None
         \/ /\ b.last_unchoked_at # None
            /\ Unwrap(a.last_unchoked_at) <= Unwrap(b.last_unchoked_at)

\* how many peers of the list v are equal to x
CountOf(v, x) == Cardinality({i \in 1..Len(v) : v[i] = x})

\* C19: after sort_by_unchoke has returned k = min(upload_slot, n), the list
\* holds the same peers as before, and every peer in its first k positions
\* ranks no later than every peer after them under the unchoke ordering.
C19_PrefixIsPreferred ==
    (choke.op = "sort_by_unchoke" /\ choke.ret.res = "Ok") =>
        /\ Len(peers) = Len(choke.before)
        /\ \A x \in PeerKinds : CountOf(peers, x) = CountOf(choke.before, x)
        /\ \A i \in 1..choke.ret.val :
            \A j \in (choke.ret.val + 1)..Len(peers) :
                RanksNoLater(peers[i], peers[j])

\* a sort that moved peers: two slots for three peers, given with the
\* uninterested peer first, end with the never-unchoked interested peer, the
\* interested peer unchoked before, and the uninterested peer last
C19_PreferredMovedForward ==
    /\ choke.op = "sort_by_unchoke" /\ choke.ret = Ok(2)
    /\ Len(peers) = 3
    /\ ~choke.before[1].is_peer_interesting
    /\ peers[1].is_peer_interesting /\ peers[1].last_unchoked_at = None
    /\ peers[2].is_peer_interesting /\ peers[2].last_unchoked_at # None
    /\ ~peers[3].is_peer_interesting

\* C20: after sort_by_unchoke has returned k, the first k positions are
\* themselves in the unchoke order: interested peers first, and within the
\* same interest an earlier last_unchoked_at first, None earliest.
C20_PrefixIsSorted ==
    (choke.op = "sort_by_unchoke" /\ choke.ret.res = "Ok") =>
        \A i, j \in 1..choke.ret.val :
            i < j => RanksNoLater(peers[i], peers[j])

RECURSIVE SumWithin(_, _, _)
\* the bytes of the records made within the last w seconds before now
SumWithin(recorded, now, w) ==
    IF recorded = <<>> THEN 0
    ELSE (IF now - recorded[1][1] <= w THEN recorded[1][2] ELSE 0)
         + SumWithin(Tail(recorded), now, w)

\* C21: rate() is the sum of the bytes recorded within the last window W
\* divided by W seconds, at whatever time it is asked; asked more than W
\* after the last record it is 0.
C21_RateCountsTheWindow ==
    rateres.op = "rate" =>
        rateres.ret = [total |-> SumWithin(rateres.recorded, clock, throughput.window),
                       secs |-> throughput.window]

\* C22: once Shutdown was sent and the disk task has ended, every WritePiece
\* command enqueued before it was taken from the queue and run; and
\* shutdown() has returned only if the task has exited.
C22_WritesDrainedBeforeExit ==
    /\ (diskres.shutdown_sent /\ disk.task # "Running")
            => diskres.taken = Len(diskres.enqueued)
    /\ disk.owner = "Done" => disk.task = "Exited"

\* the file and the offset in it of position p of a multi-file torrent
PlaceOf(metainfo, p) == Unwrap(FileAt(Unwrap(metainfo.files), p))

\* C23: for a multi-file torrent, every byte of every piece written is in
\* the file whose range holds its position, at its offset in that file, and
\* no file holds bytes past its length.
C23_PieceSplitAcrossFiles ==
    IsSome(disk.meta.files) =>
        /\ \A n \in 1..Len(diskres.written) :
            LET i == diskres.written[n][1]
                data == diskres.written[n][2]
            IN  \A k \in 1..Len(data) :
                    LET at == PlaceOf(disk.meta, i * disk.meta.piece_length + k - 1)
                    IN  <<at.offset, data[k]>> \in disk.fs[at.path].cells
        /\ \A k \in 1..Len(Unwrap(disk.meta.files)) :
            LET f == Unwrap(disk.meta.files)[k]
            IN  \A c \in disk.fs[f.path].cells : c[1] < f.length

\* C25: for a single-file torrent, a WritePiece whose I/O succeeds is
\* carried out for every piece index, and the data of every piece written
\* is in the file info.name from offset piece_index * piece_length on.
C25_SingleFileOffsetExact ==
    IsSome(disk.meta.length) =>
        /\ (diskres.op = "WritePiece" /\ diskres.io = "ok") => disk.task = "Running"
        /\ \A n \in 1..Len(diskres.written) :
            LET i == diskres.written[n][1]
                data == diskres.written[n][2]
            IN  \A k \in 1..Len(data) :
                    <<i * disk.meta.piece_length + k - 1, data[k]>>
                        \in disk.fs[disk.meta.name].cells

\* the MetaInfo as Torrent::from_metainfo reads it, in bytes
InBytes(metainfo) ==
    [piece_length |-> metainfo.piece_length * BLOCK_SIZE,
     total_bytes |-> metainfo_total_bytes(metainfo) * BLOCK_SIZE]

\* C26: the bitfield the disk replies with is all zeros and has
\* ceil(total_bytes / piece_length) bits, and so has the owned bitfield
\* Torrent::from_metainfo builds (taken here for the torrents below 4 GiB).
C26_PieceCountIsCeil ==
    /\ IsSome(disk.reply)
            => Unwrap(disk.reply) = Repeat(FALSE, NumPieces(disk.meta))
    /\ metainfo_total_bytes(disk.meta) < U32Blocks
            => Len(from_metainfo(InBytes(disk.meta)).piece_picker.own_bitfield)
                    = NumPieces(disk.meta)

\* C27: after a WritePiece that failed, the disk task is still running and
\* the commands queued behind it are still in the queue.
C27_FailedWriteKeepsTaskRunning ==
    (diskres.op = "WritePiece" /\ diskres.io # "ok")
        => (disk.task = "Running" /\ Len(disk.queue) = diskres.left)

\* C24: an Active session whose inbound stream has ended, because the
\* socket failed, a frame did not decode or the peer closed the connection,
\* is not running any more.
C24_EndsWithTheStream ==
    ~active.inbound_open => active.pc # "Running"

\* the last message the session handled
LastTag == sess.inbound[Len(sess.inbound)]

\* C28: handling Have(i) for a piece index of the torrent sets bit i of the
\* peer's bitfield and leaves every other bit as it was, also when no
\* Bitfield message came before.
C28_HaveSetsTheBit ==
    (/\ sess.inbound # <<>>
     /\ LastTag = "Have"
     /\ sess.last.piece_index < Len(sess.torrent.piece_picker.own_bitfield)) =>
        /\ sess.pc = "Running"
        /\ sess.last.piece_index < Len(sess.peer_connection.peer_bitfield)
        /\ sess.peer_connection.peer_bitfield[sess.last.piece_index + 1]
        /\ \A j \in 1..Len(sess.bitfield_before) :
            j # sess.last.piece_index + 1
                => (/\ j <= Len(sess.peer_connection.peer_bitfield)
                    /\ sess.peer_connection.peer_bitfield[j] = sess.bitfield_before[j])

\* the torrent holds piece i: its bit is set in the owned bitfield
Held(i) ==
    /\ i < Len(sess.torrent.piece_picker.own_bitfield)
    /\ sess.torrent.piece_picker.own_bitfield[i + 1]

\* C29: on a Request, an entry for the requested block is added to the
\* outbound queue if and only if we are not choking the peer and the
\* requested piece is held; otherwise the queue is as it was.
C29_RequestQueuedIffServable ==
    (sess.inbound # <<>> /\ LastTag = "Request") =>
        IF ~sess.peer_connection.is_choked /\ Held(sess.last.piece_index)
        THEN sess.request_queue =
                Append(sess.queue_before,
                       BlockInfo(sess.last.piece_index, sess.last.begin,
                                 sess.last.length))
        ELSE sess.request_queue = sess.queue_before

\* the entry carries exactly the triple the last message named
SameTriple(entry) ==
    /\ entry.piece_index = sess.last.piece_index
    /\ entry.begin = sess.last.begin
    /\ entry.length = sess.last.length

RECURSIVE SumLengthsOf(_)
\* the bytes of the blocks named in a sequence of (piece_index, begin, length)
SumLengthsOf(blocks) ==
    IF blocks = <<>> THEN 0 ELSE blocks[1].length + SumLengthsOf(Tail(blocks))

\* C31: once the session has handled Piece messages, the bytes registered
\* against stats.download are the lengths of their blocks, and every one of
\* the blocks was handed to Torrent::add_block, in the order of arrival.
C31_PieceCountedAndForwarded ==
    /\ SumBytes(active.stats.download.log) = SumLengthsOf(active.blocks_in)
    /\ active.forwarded = active.blocks_in

\* C32: when verify() is called on a piece whose blocks, assembled, do not
\* hash to the expected hash, the verification fails with InvalidHash and
\* the piece's accumulated blocks are discarded: its block collection is
\* empty afterwards, so that a later delivery starts afresh.
C32_MismatchDiscardsBlocks ==
    LET buf == Assemble(Repeat(0, piece.length), pres.before.blocks) IN
    (VerifiedTiled /\ calculate_sha1_hash(buf) # piece.hash)
    => (/\ pres.ret = Err("InvalidHash")
        /\ piece.status = UnVerified(<<>>))

\* the number of pieces of the torrent the session works on
PieceCount ==
    LET p == sess.torrent.piece_picker IN
    (p.total_length + p.piece_length - 1) \div p.piece_length

\* C34: in every state the peer's bitfield has as many bits as the torrent
\* has pieces: on creation of the PeerConnection and after every Bitfield
\* and Have message handled.
C34_PeerBitfieldLengthFixed ==
    Len(sess.peer_connection.peer_bitfield) = PieceCount

\* C35: a Torrent built by from_metainfo holds one Piece per piece index,
\* and add_block for a block whose piece index is below the number of
\* pieces does not fail with InvalidPieceIndex.
C35_OnePiecePerIndex ==
    /\ Len(sess.torrent.pieces) = PieceCount
    /\ (sess.inbound # <<>> /\ LastTag = "Piece"
            /\ sess.last.piece_index < PieceCount)
        => sess.add_block_ret # Err("InvalidPieceIndex")

\* C36: when Torrent::add_block returned an error, the picker's block
\* states and the owned bitfield are what they were before the call.
C36_ErrorLeavesPickerAlone ==
    (sess.inbound # <<>> /\ LastTag = "Piece" /\ sess.add_block_ret.res = "Err")
    => sess.torrent.piece_picker = sess.picker_before

\* C37: a decode call does not crash, and whenever it returns a message it
\* has taken exactly 4 + length bytes off the front of the buffer, length
\* being the declared length of the frame.
C37_DecodeConsumesOneFrame ==
    /\ out.res # "Panic"
    /\ out.res = "Some"
        => out.after = Advance(out.before, 4 + BeU32(out.before))

\* the blocks lie inside the piece and every byte offset of it is in one of
\* them (they may overlap or repeat)
Covers(length, blocks) ==
    /\ \A k \in 1..Len(blocks) : blocks[k].begin + Len(blocks[k].data) <= length
    /\ \A i \in 1..length : \E k \in 1..Len(blocks) :
            blocks[k].begin < i /\ i <= blocks[k].begin + Len(blocks[k].data)

\* C39: whenever is_all_blocks_received is true for an Unverified piece,
\* the received blocks cover every byte offset of the piece and none
\* extends past its length, duplicates and overlaps included.
C39_CompleteMeansCovered ==
    (/\ pres.op = "is_all_blocks_received"
     /\ pres.before.tag = "UnVerified"
     /\ pres.ret = Ok(TRUE))
    => Covers(piece.length, pres.before.blocks)

\* the indexes of the WritePiece commands in a queue, in its order
WriteIndexes(queue) ==
    LET writes == SelectSeq(queue, LAMBDA c : c.tag = "WritePiece")
    IN  [k \in 1..Len(writes) |-> writes[k].index]

\* C40: the disk task runs the commands in the order they were enqueued:
\* the pieces written are, in order, the first WritePiece commands
\* enqueued, at most one more was taken and failed, and while the task
\* runs the queue holds the rest in their order; no command stands behind
\* Shutdown, and once the task has taken Shutdown it has ended and runs
\* nothing more.
C40_CommandsRunInOrder ==
    /\ Len(diskres.written) <= Len(diskres.enqueued)
    /\ \A k \in 1..Len(diskres.written) :
            diskres.written[k][1] = diskres.enqueued[k]
    /\ diskres.taken \in {Len(diskres.written), Len(diskres.written) + 1}
    /\ disk.task = "Running"
        => /\ diskres.taken = Len(diskres.written)
           /\ WriteIndexes(disk.queue)
                = SubSeq(diskres.enqueued, diskres.taken + 1, Len(diskres.enqueued))
    /\ \A k \in 1..Len(disk.queue) :
            disk.queue[k].tag = "Shutdown" => k = Len(disk.queue)
    /\ diskres.op = "Shutdown"
        => /\ disk.task = "Exited"
           /\ disk.queue = <<>>
           /\ diskres.taken = Len(diskres.enqueued)

\* C40: two different pieces were enqueued, both were written in that
\* order, and the task then took Shutdown
C40_TwoWritesThenShutdown ==
    /\ Len(diskres.written) >= 2
    /\ diskres.written[1][1] # diskres.written[2][1]
    /\ diskres.op = "Shutdown"

\* C33: a session that holds the torrent mutex is not suspended at an
\* await: between taking and dropping the guard it does not wait for the
\* acquisition of another lock.
C33_NoAwaitUnderTorrentLock ==
    \A t \in Sessions :
        mutexes.torrent.owner = t => tasks[t].pc # "AwaitPicker"

\* task t holds, or waits for, one of the two locks
Holds(t) ==
    \/ mutexes.torrent.owner = t
    \/ mutexes.piece_picker.owner = t
    \/ \E k \in 1..Len(mutexes.torrent.waiters) : mutexes.torrent.waiters[k] = t
    \/ \E k \in 1..Len(mutexes.piece_picker.waiters) :
            mutexes.piece_picker.waiters[k] = t

\* what the completed add_block calls of every session have left behind:
\* the picker's BlockInfo of each block handed in is Received, and a block
\* add_block accepted is in the collection of its piece
UpdatesKept ==
    \A t \in Sessions : \A call \in tasks[t].calls :
        LET begin == call[1]
            blocks == aggregate.piece_picker.missing_blocks
        IN  /\ \A j \in 1..Len(blocks) :
                    is_same_block(blocks[j], BlockInfo(0, begin, Len(LastBlock)))
                        => blocks[j].state = "Received"
            /\ call[2] = "Ok"
                => /\ aggregate.pieces # <<>>
                   /\ aggregate.pieces[1].status.tag = "UnVerified"
                        => \E b \in 1..Len(aggregate.pieces[1].status.blocks) :
                                aggregate.pieces[1].status.blocks[b]
                                    = Block(0, begin, LastBlock)

=============================================================================
